---- MODULE Spec2Model ----
(***************************************************************************)
(* Capture pipeline of thehook (src/src/thehook/capture.py): run_capture,  *)
(* the throttle store, transcript parsing/assembly, artifact writing and   *)
(* the index call, as a state machine over one project directory.          *)
(*                                                                         *)
(* Strings whose characters matter are sequences of one-character strings. *)
(* JSON / Python values are records [t, v]: t is the Python type, v the    *)
(* characters of str(value).                                               *)
(***************************************************************************)
EXTENDS Integers, Sequences, FiniteSets, TLC

\* ------------------------------------------------------------------ bounds
MaxRuns == 1
MaxSeqRuns == 2
MaxTicks == 2
StartTime == 1000

\* ------------------------------------------------------- program constants
MAX_TRANSCRIPT_CHARS == 50000
EXTRACTION_TIMEOUT_SECONDS == 85
INTERMEDIATE_EXTRACTION_TIMEOUT_SECONDS == 20
INTERMEDIATE_MAX_TRANSCRIPT_CHARS == 12000
INTERMEDIATE_MIN_INTERVAL_SECONDS == 180
SafeIdLen == 8
DaySeconds == 86400

\* ---------------------------------------------------------- Python values
PyNone == [t |-> "none", v |-> <<"N", "o", "n", "e">>]
PyAbsent == [t |-> "absent", v |-> <<>>]
PyStr(s) == [t |-> "str", v |-> s]
PyInt7 == [t |-> "int", v |-> <<"7">>]

\* bool(x) for the values above
Truthy(x) ==
    \/ x.t = "str" /\ x.v # <<>>
    \/ x.t = "int" /\ x.v # <<"0">>

\* str(x)
Str(x) == x.v

\* d.get(k, default): a missing key is PyAbsent
Get(d, k, default) == IF d[k].t = "absent" THEN default ELSE d[k]

\* a or b
PyOr(a, b) == IF Truthy(a) THEN a ELSE b

\* ------------------------------------------------------------ string data
S1 == <<"s", "1">>
S2 == <<"s", "2">>
UNKNOWN == <<"u", "n", "k", "n", "o", "w", "n">>
T1 == <<"t", "1">>
PROJ == <<"p">>
HELLO == <<"H", "e", "l", "l", "o">>
USER == <<"u", "s", "e", "r">>
ASSISTANT == <<"a", "s", "s", "i", "s", "t", "a", "n", "t">>
TEXT == <<"t", "e", "x", "t">>
TOOL_USE == <<"t", "o", "o", "l">>
NL == "\n"
Marker == <<".", ".", ".", "[", "t", "r", "u", "n", "c", "a", "t", "e", "d", "]",
            ".", ".", ".", NL, NL>>

Whitespace == {" ", NL}

Upper(c) ==
    CASE c = "u" -> "U" [] c = "s" -> "S" [] c = "e" -> "E" [] c = "r" -> "R"
      [] c = "a" -> "A" [] c = "i" -> "I" [] c = "t" -> "T" [] c = "n" -> "N"
      [] OTHER -> c

UpperStr(s) == [i \in 1..Len(s) |-> Upper(s[i])]

RECURSIVE LStrip(_)
LStrip(s) == IF s # <<>> /\ Head(s) \in Whitespace THEN LStrip(Tail(s)) ELSE s

RECURSIVE RStrip(_)
RStrip(s) ==
    IF s # <<>> /\ s[Len(s)] \in Whitespace THEN RStrip(SubSeq(s, 1, Len(s) - 1)) ELSE s

Strip(s) == RStrip(LStrip(s))

\* sep.join(parts)
RECURSIVE Join(_, _)
Join(sep, parts) ==
    IF parts = <<>> THEN <<>>
    ELSE IF Len(parts) = 1 THEN parts[1]
    ELSE parts[1] \o sep \o Join(sep, Tail(parts))

\* s[-k:] for an integer k
Suffix(s, k) ==
    IF k = 0 THEN s
    ELSE IF k > 0 THEN SubSeq(s, (IF Len(s) > k THEN Len(s) - k + 1 ELSE 1), Len(s))
    ELSE SubSeq(s, (0 - k) + 1, Len(s))

\* ------------------------------------------------- transcript (JSONL file)
\* One line of the transcript file.  json: "blank" (empty after strip),
\* "invalid" (json.loads fails), "scalar" (valid JSON that is no object),
\* "object".  msg: the "message" key is "absent", a "dict" or "other".
\* ckind: the message's "content" is "absent", a "str", a "list" of blocks or
\* "other".
Rec(type, uuid, msg, role, ckind, cstr, blocks) ==
    [json |-> "object", type |-> type, uuid |-> uuid, msg |-> msg, role |-> role,
     ckind |-> ckind, cstr |-> cstr, blocks |-> blocks]

NonRec(kind) ==
    [json |-> kind, type |-> PyAbsent, uuid |-> PyAbsent, msg |-> "absent",
     role |-> PyAbsent, ckind |-> "absent", cstr |-> <<>>, blocks |-> <<>>]

Block(isdict, type, text) == [isdict |-> isdict, type |-> type, text |-> text]

\* parts of a block-array content (capture.py 230-233): the "text" of every
\* dict block whose type is "text", default ""
RECURSIVE BlockParts(_)
BlockParts(blocks) ==
    IF blocks = <<>> THEN <<>>
    ELSE LET b == Head(blocks) IN
         (IF b.isdict /\ b.type = TEXT
             THEN << (IF b.text.t = "absent" THEN PyStr(<<>>) ELSE b.text) >>
             ELSE <<>>)
         \o BlockParts(Tail(blocks))

AllStr(parts) == \A i \in 1..Len(parts) : parts[i].t = "str"

\* One record -> [skip, raised, message]
ParseLine(line) ==
    LET none == [role |-> PyAbsent, content |-> <<>>, uuid |-> PyAbsent] IN
    IF line.json \in {"blank", "invalid"}
        THEN [skip |-> TRUE, raised |-> FALSE, message |-> none]
    ELSE IF line.json = "scalar"
        THEN [skip |-> FALSE, raised |-> TRUE, message |-> none]   \* record.get
    ELSE IF ~(line.type.t = "str" /\ line.type.v \in {USER, ASSISTANT})
        THEN [skip |-> TRUE, raised |-> FALSE, message |-> none]
    ELSE IF line.msg = "other"
        THEN [skip |-> FALSE, raised |-> TRUE, message |-> none]   \* msg.get
    ELSE
        LET role == IF line.msg = "absent" \/ line.role.t = "absent"
                       THEN line.type ELSE line.role
            ckind == IF line.msg = "absent" THEN "absent" ELSE line.ckind
            parts == BlockParts(line.blocks)
            text == IF ckind = "str" THEN line.cstr
                    ELSE IF ckind = "list"
                        THEN Join(<<NL>>, [i \in 1..Len(parts) |-> parts[i].v])
                    ELSE <<>>
            uuid == IF line.uuid.t = "absent" THEN PyStr(<<>>) ELSE line.uuid
        IN IF ckind = "list" /\ ~AllStr(parts)
              THEN [skip |-> FALSE, raised |-> TRUE, message |-> none]  \* "\n".join
              ELSE [skip |-> FALSE, raised |-> FALSE,
                    message |-> [role |-> role, content |-> text, uuid |-> uuid]]

RECURSIVE ParseLines(_, _)
ParseLines(lines, acc) ==
    IF lines = <<>> THEN [raised |-> FALSE, messages |-> acc]
    ELSE LET r == ParseLine(Head(lines)) IN
         IF r.raised THEN [raised |-> TRUE, messages |-> acc]
         ELSE IF r.skip THEN ParseLines(Tail(lines), acc)
         ELSE ParseLines(Tail(lines), Append(acc, r.message))

\* parse_transcript: a path of the wrong type raises in Path(); a missing file
\* yields []
parse_transcript(transcript_path, file) ==
    IF transcript_path.t # "str" THEN [raised |-> TRUE, messages |-> <<>>]
    ELSE IF ~file.exists THEN [raised |-> FALSE, messages |-> <<>>]
    ELSE ParseLines(file.lines, <<>>)

\* -------------------------------------------------- assemble_transcript_text
RECURSIVE Parts(_)
Parts(messages) ==
    IF messages = <<>> THEN <<>>
    ELSE LET msg == Head(messages)
             content == Strip(msg.content)
         IN (IF content # <<>>
                THEN << <<"[">> \o UpperStr(msg.role.v) \o <<"]", ":", " ">> \o content >>
                ELSE <<>>)
            \o Parts(Tail(messages))

\* msg["role"].upper() needs a str role
RolesAreStr(messages) == \A i \in 1..Len(messages) : messages[i].role.t = "str"

assemble_transcript_text(messages, max_chars) ==
    LET full == Join(<<NL, NL>>, Parts(messages)) IN
    IF Len(full) > max_chars THEN Marker \o Suffix(full, max_chars) ELSE full

\* hashlib.sha256(text).hexdigest(): never empty, distinct texts give distinct
\* digests
Sha256(text) == <<"#">> \o text

\* ------------------------------------------------------ hook payload (stdin)
\* kind: "empty" (nothing on stdin), "notjson", "falsy" (JSON null, 0, "", []),
\* "emptyobj" (JSON {}), "scalar" (truthy JSON that is no object: [1], 5, "x",
\* true), "object" (a non-empty JSON object; a key it lacks is PyAbsent).
Obj(sid, conv, tp, cwd, roots) ==
    [kind |-> "object", session_id |-> sid, conversation_id |-> conv,
     transcript_path |-> tp, cwd |-> cwd, workspace_roots |-> roots]

NonObj(kind) ==
    [kind |-> kind, session_id |-> PyAbsent, conversation_id |-> PyAbsent,
     transcript_path |-> PyAbsent, cwd |-> PyAbsent, workspace_roots |-> PyAbsent]

\* workspace_roots = [PROJ]
PyRoots == [t |-> "list", v |-> PROJ]

Payloads ==
    { NonObj("empty"), NonObj("notjson"), NonObj("falsy"), NonObj("emptyobj"),
      NonObj("scalar"),
      Obj(PyStr(S1), PyAbsent, PyStr(T1), PyStr(PROJ), PyAbsent),
      Obj(PyStr(S2), PyAbsent, PyStr(T1), PyStr(PROJ), PyAbsent),
      Obj(PyAbsent, PyStr(S2), PyStr(T1), PyAbsent, PyRoots),
      Obj(PyNone, PyNone, PyStr(T1), PyStr(PROJ), PyAbsent),
      Obj(PyStr(S1), PyAbsent, PyNone, PyStr(PROJ), PyAbsent),
      Obj(PyAbsent, PyAbsent, PyAbsent, PyAbsent, PyAbsent),
      Obj(PyStr(S1), PyAbsent, PyInt7, PyStr(PROJ), PyAbsent),
      Obj(PyStr(S1), PyAbsent, PyStr(T1), PyInt7, PyAbsent) }

\* read_hook_input: {} for empty stdin and for a JSONDecodeError, otherwise
\* whatever json.loads returned
read_hook_input(raw) ==
    IF raw.kind \in {"empty", "notjson"} THEN NonObj("emptyobj") ELSE raw

\* a guard that lets everything through
InputNotNone(hook_input) == TRUE

\* bool(hook_input), line 394
InputTruthy(hook_input) == hook_input.kind \in {"scalar", "object"}

\* hook_input has a .get (it is a dict)
IsDict(hook_input) == hook_input.kind \in {"emptyobj", "object"}

\* _resolve_project_dir: TRUE when Path(cwd) can be built
ProjectDirOk(hook_input) ==
    LET roots == Get(hook_input, "workspace_roots", [t |-> "list", v |-> <<>>])
        first == IF roots.v # <<>> THEN PyStr(roots.v) ELSE PyStr(<<".">>)
        cwd == PyOr(Get(hook_input, "cwd", PyNone), first)
    IN cwd.t = "str"

\* ------------------------------------------------------------ configuration
\* The dict run_capture sees: {} when load_config raised (ok = FALSE), else
\* DEFAULT_CONFIG merged with the user's thehook.yaml.
Cfg(ok, enabled, min_interval, max_chars) ==
    [ok |-> ok,
     intermediate_capture_enabled |-> enabled,
     intermediate_capture_min_interval_seconds |-> min_interval,
     intermediate_capture_max_transcript_chars |-> max_chars,
     intermediate_capture_timeout_seconds |-> INTERMEDIATE_EXTRACTION_TIMEOUT_SECONDS]

DEFAULT_CONFIG ==
    Cfg(TRUE, TRUE, INTERMEDIATE_MIN_INTERVAL_SECONDS, INTERMEDIATE_MAX_TRANSCRIPT_CHARS)

Configs ==
    { DEFAULT_CONFIG,
      [DEFAULT_CONFIG EXCEPT !.ok = FALSE],
      [DEFAULT_CONFIG EXCEPT !.intermediate_capture_enabled = FALSE],
      [DEFAULT_CONFIG EXCEPT !.intermediate_capture_min_interval_seconds = 0],
      [DEFAULT_CONFIG EXCEPT !.intermediate_capture_min_interval_seconds = 0 - 5] }

\* the configuration file is never consulted
ConfigGetDefault(config, key, default) == default

\* config.get(key, default)
ConfigGet(config, key, default) == IF config.ok THEN config[key] ELSE default

\* ------------------------------------------------- transcript files on disk
File(lines) == [exists |-> TRUE, lines |-> lines]
MissingFile == [exists |-> FALSE, lines |-> <<>>]

UserHello == Rec(PyStr(USER), PyStr(<<"1">>), "dict", PyAbsent, "str", HELLO, <<>>)
AssistantAB ==
    Rec(PyStr(ASSISTANT), PyStr(<<"2">>), "dict", PyStr(ASSISTANT), "list", <<>>,
        << Block(TRUE, TEXT, PyStr(<<"A">>)), Block(TRUE, TOOL_USE, PyAbsent),
           Block(TRUE, TEXT, PyStr(<<"B">>)) >>)
Summary == Rec(PyStr(<<"s", "u", "m">>), PyAbsent, "absent", PyAbsent, "absent", <<>>, <<>>)
BadMessage == Rec(PyStr(USER), PyAbsent, "other", PyAbsent, "absent", <<>>, <<>>)
NullRole == Rec(PyStr(USER), PyAbsent, "dict", PyNone, "str", HELLO, <<>>)

Files ==
    { MissingFile,
      File(<<>>),
      File(<<UserHello>>),
      File(<<UserHello, NonRec("blank"), AssistantAB>>),
      File(<<NonRec("invalid"), Summary>>),
      File(<<UserHello, NonRec("scalar")>>),
      File(<<BadMessage>>),
      File(<<NullRole>>) }

\* ------------------------------------------------- run_claude_extraction
\* What happened: the child was spawned or not, communicate() returned before
\* the deadline or not, the exit status and the standard output it saw, and
\* whether a step outside the handlers failed (Popen rejecting the prompt,
\* os.killpg failing).
Outcome(spawned, timedout, returncode, stdout, failed) ==
    [spawned |-> spawned, timedout |-> timedout, returncode |-> returncode,
     stdout |-> stdout, failed |-> failed]

Outcomes ==
    { Outcome(TRUE, FALSE, 0, <<" ", "o", "k", NL>>, FALSE),
      Outcome(TRUE, FALSE, 0, <<" ", NL>>, FALSE),
      Outcome(TRUE, FALSE, 1, <<"o", "k">>, FALSE),
      Outcome(TRUE, TRUE, 0, <<>>, FALSE),
      Outcome(FALSE, FALSE, 0, <<>>, FALSE),
      Outcome(FALSE, FALSE, 0, <<>>, TRUE),
      Outcome(TRUE, TRUE, 0, <<>>, TRUE) }

\* no value: the call raised
PyRaise == [t |-> "raise", v |-> <<>>]

\* the value returned: the stripped output, or None
run_claude_extraction(o) ==
    IF o.failed THEN PyRaise
    ELSE IF ~o.spawned THEN PyNone
    ELSE IF o.timedout THEN PyNone
    ELSE IF o.returncode = 0
        THEN (IF Strip(o.stdout) # <<>> THEN PyStr(Strip(o.stdout)) ELSE PyNone)
    ELSE PyNone

\* ------------------------------------------------------- session artifacts
NoContent == [kind |-> "none", reason |-> "", count |-> 0, text |-> <<>>]
ResultContent(text) == [kind |-> "result", reason |-> "", count |-> 0, text |-> text]

\* write_stub_summary's body: "Extraction {reason}. Session had {count} messages."
StubContent(count, reason) == [kind |-> "stub", reason |-> reason, count |-> count, text |-> <<>>]

\* session_id[:8] if len(session_id) > 8 else session_id
SafeId(sid) == IF Len(sid) > SafeIdLen THEN SubSeq(sid, 1, SafeIdLen) ELSE sid

\* timestamp[:10], the UTC date, as a day number
Day(t) == t \div DaySeconds

\* the file name f"{timestamp[:10]}-{safe_id}.md"
FileName(t, sid) == [day |-> Day(t), safe_id |-> SafeId(sid)]

\* -------------------------------------------------------------------- state
Procs == {"a", "b"}          \* hook processes (one run_capture invocation each)
SeqProcs == {"a"}            \* the process used when invocations do not overlap
\* one clock step: half the default minimum interval, longer than both deadlines
TickSeconds == INTERMEDIATE_MIN_INTERVAL_SECONDS \div 2
Modes == {"full", "lite"}

VARIABLES
    now,              \* time.time(), whole seconds
    ticks,            \* clock steps taken
    runs,             \* invocations started
    state_file,       \* .thehook/intermediate_capture_state.json
    sessions,         \* .thehook/sessions/*.md
    index,            \* the vector store collection: {[id, body]}
    pc,               \* position of each invocation in run_capture
    mode,
    input,            \* kind of payload this invocation read
    cfg_enabled,      \* FALSE when the loaded configuration disables intermediate capture
    checked_at,       \* clock at the throttle check
    session_id,
    transcript_path,
    min_interval_seconds,
    timeout_seconds,
    message_count,    \* len(messages); -1 while parse_transcript has not returned
    transcript_hash,
    result,           \* what run_claude_extraction returned (PyAbsent: nothing yet)
    content,          \* body about to be written / written
    session_path,     \* file name returned by write_session_file
    started_at,       \* clock when the child was spawned
    log,              \* effects of this invocation, in order
    last_lite_extract,\* clock at the latest lite extraction start (-1: none)
    prev_lite_extract \* last_lite_extract as it was when this one started

\* run_claude_extraction, step by step (used by SpecExtract)
VARIABLES
    xpc,              \* position in run_claude_extraction
    xin,              \* the prompt, the command and the environment of this call
    child,            \* the claude process: none, running, zombie, reaped, gone
    holder,           \* a descendant holding the child's stdout open
    kills,            \* os.killpg calls that delivered the signal
    expired,          \* communicate(timeout) raised TimeoutExpired
    xret,             \* the value returned (PyAbsent: none yet)
    in_time           \* the child exited while communicate(timeout) was waiting

extract_vars == <<xpc, xin, child, holder, kills, expired, xret, in_time>>

\* one call of a pure function (used by SpecText)
VARIABLES
    call,             \* the function and its arguments
    ret               \* what the call produced (PyAbsent: nothing yet)

text_vars == <<call, ret>>

\* one call of run_retrieve or of query_sessions, followed step by step (used by
\* SpecRetrieve and SpecQuery)
VARIABLES
    rpc,              \* where the call is
    rin,              \* the payload, the configuration and the vector store
    rargs,            \* query_sessions' arguments and run_retrieve's settings
    queries,          \* the collection.query calls issued, in order
    rdocs,            \* what query_sessions returned
    rcontext,         \* what format_context returned (PyAbsent: not called)
    emitted,          \* the JSON objects printed on stdout, in order
    rerrors           \* the places where an exception was raised

retrieve_vars == <<rpc, rin, rargs, queries, rdocs, rcontext, emitted, rerrors>>

\* .thehook/knowledge/*.md, the consolidated knowledge documents
VARIABLES
    knowledge

\* history: the (session id, fingerprint) pairs recorded by a lite capture
\* whose extraction returned nothing
VARIABLES
    consumed

beside_capture == <<extract_vars, text_vars, retrieve_vars, knowledge>>
aux == <<beside_capture, consumed>>

capture_vars == <<now, ticks, runs, state_file, sessions, index, pc, mode, input,
          cfg_enabled, checked_at, session_id,
          transcript_path, min_interval_seconds,
          timeout_seconds, message_count, transcript_hash, result, content,
          session_path, started_at, log, last_lite_extract, prev_lite_extract>>

\* what a step of run_claude_extraction, of a text function, of the retrieval
\* leaves alone
beside_extract == <<capture_vars, text_vars, retrieve_vars, knowledge, consumed>>
beside_text == <<capture_vars, extract_vars, retrieve_vars, knowledge, consumed>>
beside_retrieve == <<capture_vars, extract_vars, text_vars, knowledge, consumed>>

vars == <<capture_vars, aux>>

shared == <<state_file, sessions, index>>
clock == <<now, ticks>>

\* ------------------------------------------------------------ throttle store
StateFile(kind, sid, hash, last_ok, last) ==
    [kind |-> kind, session_id |-> sid, transcript_hash |-> hash,
     last_ok |-> last_ok, last_capture_at |-> last]

\* the fingerprint a lite capture of the one-message transcript computes
HelloHash ==
    Sha256(assemble_transcript_text(
               parse_transcript(PyStr(T1), File(<<UserHello>>)).messages,
               INTERMEDIATE_MAX_TRANSCRIPT_CHARS))

\* No file; a file that is not JSON; JSON that is no object; an object whose
\* last_capture_at int() rejects
InitialStateFiles ==
    { StateFile("missing", <<>>, <<>>, TRUE, 0),
      StateFile("notjson", <<>>, <<>>, TRUE, 0),
      StateFile("scalar", <<>>, <<>>, TRUE, 0),
      StateFile("object", S1, HelloHash, FALSE, 0) }

\* _read_intermediate_state: {} when the file is missing or json.loads raises
_read_intermediate_state(file) ==
    IF file.kind \in {"missing", "notjson"}
        THEN StateFile("object", <<>>, <<>>, TRUE, 0)
        ELSE file

\* _should_skip_intermediate_capture -> "raise", "skip" or "run"
UnchangedGuard(state, sid, hash) ==
    state.session_id = sid /\ state.transcript_hash = hash

\* the interval check with <= in place of <
IntervalGuardInclusive(state, t, min_seconds) ==
    t - state.last_capture_at <= (IF min_seconds > 0 THEN min_seconds ELSE 0)

IntervalGuard(state, t, min_seconds) ==
    t - state.last_capture_at < (IF min_seconds > 0 THEN min_seconds ELSE 0)

\* both conditions required before skipping
ShouldSkipBothGuards(file, sid, hash, min_seconds, t) ==
    LET state == _read_intermediate_state(file) IN
    IF state.kind # "object" THEN "raise"
    ELSE IF ~state.last_ok THEN "raise"
    ELSE IF UnchangedGuard(state, sid, hash) /\ IntervalGuard(state, t, min_seconds)
        THEN "skip"
    ELSE "run"

_should_skip_intermediate_capture(file, sid, hash, min_seconds, t) ==
    LET state == _read_intermediate_state(file) IN
    IF state.kind # "object" THEN "raise"          \* state.get on a non-dict
    ELSE IF ~state.last_ok THEN "raise"            \* int(...) fails
    ELSE IF UnchangedGuard(state, sid, hash) THEN "skip"
    ELSE IF IntervalGuard(state, t, min_seconds) THEN "skip"
    ELSE "run"

\* a record written without the fingerprint
MarkedStateNoHash(sid, hash, t) == StateFile("object", sid, <<>>, TRUE, t)

\* the record _mark_intermediate_capture writes
MarkedState(sid, hash, t) == StateFile("object", sid, hash, TRUE, t)

\* -------------------------------------------------------------------- Init
CaptureFrom(files) ==
    /\ now = StartTime
    /\ ticks = 0
    /\ runs = 0
    /\ state_file \in InitialStateFiles
    /\ sessions = files
    /\ knowledge = {}
    /\ consumed = {}
    /\ index = {}
    /\ pc = [p \in Procs |-> "idle"]
    /\ mode = [p \in Procs |-> "full"]
    /\ input = [p \in Procs |-> "empty"]
    /\ cfg_enabled = [p \in Procs |-> TRUE]
    /\ checked_at = [p \in Procs |-> 0]
    /\ session_id = [p \in Procs |-> PyNone]
    /\ transcript_path = [p \in Procs |-> PyNone]
    /\ min_interval_seconds = [p \in Procs |-> 0]
    /\ timeout_seconds = [p \in Procs |-> 0]
    /\ message_count = [p \in Procs |-> 0 - 1]
    /\ transcript_hash = [p \in Procs |-> <<>>]
    /\ result = [p \in Procs |-> PyAbsent]
    /\ content = [p \in Procs |-> NoContent]
    /\ session_path = [p \in Procs |-> FileName(0, <<>>)]
    /\ started_at = [p \in Procs |-> 0]
    /\ log = [p \in Procs |-> <<>>]
    /\ last_lite_extract = 0 - 1
    /\ prev_lite_extract = [p \in Procs |-> 0 - 1]

\* a project whose sessions directory is empty
CaptureInit == CaptureFrom({})

\* no call of run_claude_extraction is being followed step by step
ExtractIdle ==
    /\ xpc = "idle"
    /\ xin = [nul |-> FALSE, launch |-> TRUE, returncode |-> 0, stdout |-> <<>>,
              holder |-> "none", auto_reap |-> FALSE]
    /\ child = "none"
    /\ holder = "none"
    /\ kills = 0
    /\ expired = FALSE
    /\ xret = PyAbsent
    /\ in_time = FALSE

\* no pure function is being called
TextIdle ==
    /\ call = [fn |-> "none"]
    /\ ret = PyAbsent

\* no retrieval is being followed
RetrieveIdle ==
    /\ rpc = "idle"
    /\ rin = [caller |-> "none"]
    /\ rargs = [n_results |-> 0]
    /\ queries = <<>>
    /\ rdocs = <<>>
    /\ rcontext = PyAbsent
    /\ emitted = <<>>
    /\ rerrors = {}

Init == CaptureInit /\ ExtractIdle /\ TextIdle /\ RetrieveIdle

Finished == {"done", "raised"}   \* run_capture returned / raised

request == <<session_id, transcript_path>>
settings == <<min_interval_seconds, timeout_seconds>>
locals == <<mode, request, settings, message_count, transcript_hash, result, content,
            session_path, started_at, log, prev_lite_extract>>

\* ----------------------------------------------------------------- actions
\* run_capture, lines 393-402 and 405-417: read the payload, resolve the
\* fields, handle a missing transcript path.
Invoke(p, m, raw) ==
    /\ pc[p] = "idle"
    /\ runs' = runs + 1
    /\ LET hook_input == read_hook_input(raw)
           sid == PyOr(Get(hook_input, "session_id", PyNone),
                       Get(hook_input, "conversation_id", PyStr(UNKNOWN)))
           tp == PyOr(Get(hook_input, "transcript_path", PyNone), PyStr(<<>>))
           next == IF ~InputTruthy(hook_input) THEN "done"
                   ELSE IF ~IsDict(hook_input) THEN "raised"
                   ELSE IF ~ProjectDirOk(hook_input) THEN "raised"
                   ELSE IF ~Truthy(tp) THEN (IF m = "lite" THEN "done" ELSE "write")
                   ELSE "parse"
           got == InputTruthy(hook_input) /\ IsDict(hook_input)
       IN /\ pc' = [pc EXCEPT ![p] = next]
          /\ mode' = [mode EXCEPT ![p] = m]
          /\ input' = [input EXCEPT ![p] = raw.kind]
          /\ session_id' = [session_id EXCEPT ![p] = IF got THEN sid ELSE PyNone]
          /\ transcript_path' = [transcript_path EXCEPT ![p] = IF got THEN tp ELSE PyNone]
          /\ content' = [content EXCEPT ![p] =
                 IF next = "write" THEN StubContent(0, "empty transcript_path")
                 ELSE NoContent]
    /\ UNCHANGED aux
    /\ UNCHANGED <<shared, clock, settings, message_count, transcript_hash, result,
                   session_path, started_at, log, last_lite_extract, prev_lite_extract,
                   cfg_enabled, checked_at>>

\* A hook process started while no other invocation is running.
Start(p, m, raw) ==
    /\ \A q \in Procs : pc[q] = "idle"
    /\ Invoke(p, m, raw)

\* run_capture, lines 403 and 419-452 up to the throttle check: load the
\* configuration, parse the transcript, apply the mode's settings, assemble
\* the text and fingerprint it.  Full mode reads no configuration.
Parse(p, file, cfg) ==
    /\ pc[p] = "parse"
    /\ mode[p] = "full" => cfg = DEFAULT_CONFIG
    /\ LET parsed == parse_transcript(transcript_path[p], file)
           messages == parsed.messages
           lite == mode[p] = "lite"
           enabled == ConfigGet(cfg, "intermediate_capture_enabled", TRUE)
           max_chars ==
               IF lite
                   THEN ConfigGet(cfg, "intermediate_capture_max_transcript_chars",
                                  INTERMEDIATE_MAX_TRANSCRIPT_CHARS)
                   ELSE MAX_TRANSCRIPT_CHARS
           timeout ==
               IF lite
                   THEN ConfigGet(cfg, "intermediate_capture_timeout_seconds",
                                  INTERMEDIATE_EXTRACTION_TIMEOUT_SECONDS)
                   ELSE EXTRACTION_TIMEOUT_SECONDS
           min_interval ==
               IF lite
                   THEN ConfigGet(cfg, "intermediate_capture_min_interval_seconds",
                                  INTERMEDIATE_MIN_INTERVAL_SECONDS)
                   ELSE 0
           transcript_text == assemble_transcript_text(messages, max_chars)
           next == IF parsed.raised THEN "raised"
                   ELSE IF messages = <<>> THEN (IF lite THEN "done" ELSE "write")
                   ELSE IF lite /\ ~enabled THEN "done"
                   ELSE IF ~RolesAreStr(messages) THEN "raised"
                   ELSE IF lite THEN "throttle"
                   ELSE "extract"
           assembled == next \in {"throttle", "extract"}
       IN /\ pc' = [pc EXCEPT ![p] = next]
          /\ message_count' = [message_count EXCEPT ![p] =
                 IF parsed.raised THEN 0 - 1 ELSE Len(messages)]
          /\ cfg_enabled' = [cfg_enabled EXCEPT ![p] =
                 ~(lite /\ cfg.ok /\ ~cfg.intermediate_capture_enabled)]
          /\ transcript_hash' = [transcript_hash EXCEPT ![p] =
                 IF assembled /\ lite THEN Sha256(transcript_text) ELSE <<>>]
          /\ content' = [content EXCEPT ![p] =
                 IF next = "write" THEN StubContent(0, "empty transcript")
                 ELSE NoContent]
          /\ min_interval_seconds' = [min_interval_seconds EXCEPT ![p] =
                 IF assembled THEN min_interval ELSE 0]
          /\ timeout_seconds' = [timeout_seconds EXCEPT ![p] =
                 IF assembled THEN timeout ELSE 0]
    /\ UNCHANGED aux
    /\ UNCHANGED <<shared, clock, runs, mode, input, request, result, session_path,
                   started_at, log, last_lite_extract, prev_lite_extract, checked_at>>

\* a skipped capture that records itself in the throttle state
AfterThrottleMark(verdict) ==
    IF verdict = "raise" THEN "raised"
    ELSE IF verdict = "skip" THEN "mark"
    ELSE "extract"

\* run_capture, lines 444-450: `return` when the guard says skip
AfterThrottle(verdict) ==
    IF verdict = "raise" THEN "raised"
    ELSE IF verdict = "skip" THEN "done"
    ELSE "extract"

\* run_capture, lines 442-450 (lite only): consult the throttle store.
Throttle(p) ==
    /\ pc[p] = "throttle"
    /\ LET verdict == _should_skip_intermediate_capture(
                          state_file, Str(session_id[p]), transcript_hash[p],
                          min_interval_seconds[p], now)
       IN pc' = [pc EXCEPT ![p] = AfterThrottle(verdict)]
    /\ checked_at' = [checked_at EXCEPT ![p] = now]
    /\ UNCHANGED aux
    /\ UNCHANGED <<shared, clock, runs, locals, input, cfg_enabled, last_lite_extract>>

\* run_capture, line 455: run_claude_extraction is entered (Popen).
ExtractStart(p) ==
    /\ pc[p] = "extract"
    /\ pc' = [pc EXCEPT ![p] = "extracting"]
    /\ started_at' = [started_at EXCEPT ![p] = now]
    /\ log' = [log EXCEPT ![p] = Append(@, "extract")]
    /\ prev_lite_extract' = [prev_lite_extract EXCEPT ![p] =
           IF mode[p] = "lite" THEN last_lite_extract ELSE @]
    /\ last_lite_extract' = IF mode[p] = "lite" THEN now ELSE last_lite_extract
    /\ UNCHANGED aux
    /\ UNCHANGED <<shared, clock, runs, mode, input, cfg_enabled, checked_at, request,
                   settings, message_count, transcript_hash, result, content,
                   session_path>>

\* a failed extraction leaves a stub in either mode
AfterExtractionStub(m, r, count) ==
    IF Truthy(r) THEN [pc |-> "write", content |-> ResultContent(Str(r))]
    ELSE [pc |-> "write", content |-> StubContent(count, "timeout")]

\* run_capture, lines 456-466: what follows the extraction's return
AfterExtraction(m, r, count) ==
    IF Truthy(r) THEN [pc |-> "write", content |-> ResultContent(Str(r))]
    ELSE IF m = "lite" THEN [pc |-> "mark", content |-> NoContent]
    ELSE [pc |-> "write", content |-> StubContent(count, "timeout")]

\* run_capture, lines 455-466: run_claude_extraction returns; choose what to
\* write.  A child that met the deadline returned before it, a timeout is
\* reported once the deadline has passed.
ExtractReturn(p, o) ==
    /\ pc[p] = "extracting"
    /\ o.spawned =>
           IF o.timedout THEN now - started_at[p] >= timeout_seconds[p]
                         ELSE now - started_at[p] < timeout_seconds[p]
    /\ LET r == run_claude_extraction(o)
           after == AfterExtraction(mode[p], r, message_count[p])
       IN IF r = PyRaise
             THEN /\ pc' = [pc EXCEPT ![p] = "raised"]
                  /\ UNCHANGED <<result, content>>
             ELSE /\ result' = [result EXCEPT ![p] = r]
                  /\ content' = [content EXCEPT ![p] = after.content]
                  /\ pc' = [pc EXCEPT ![p] = after.pc]
    /\ UNCHANGED aux
    /\ UNCHANGED <<shared, clock, runs, mode, input, cfg_enabled, checked_at, request,
                   settings, message_count, transcript_hash, session_path, started_at,
                   log, last_lite_extract, prev_lite_extract>>

\* the file write_session_file leaves on disk
Artifact(t, sid, tp, body) ==
    [name |-> FileName(t, sid), session_id |-> sid, transcript_path |-> tp,
     body |-> body]

\* write_session_file / write_stub_summary: len(session_id) needs a str; the
\* file of that name is replaced.
WriteArtifact(p) ==
    /\ pc[p] = "write"
    /\ IF session_id[p].t # "str"
          THEN /\ pc' = [pc EXCEPT ![p] = "raised"]
               /\ UNCHANGED <<sessions, session_path, log>>
          ELSE LET a == Artifact(now, Str(session_id[p]), Str(transcript_path[p]),
                                 content[p])
               IN /\ sessions' = {f \in sessions : f.name # a.name} \cup {a}
                  /\ session_path' = [session_path EXCEPT ![p] = a.name]
                  /\ log' = [log EXCEPT ![p] = Append(@, "write")]
                  /\ pc' = [pc EXCEPT ![p] = "index"]
    /\ UNCHANGED aux
    /\ UNCHANGED <<state_file, index, clock, runs, mode, input, cfg_enabled, checked_at,
                   request, settings, message_count, transcript_hash, result, content,
                   started_at, last_lite_extract, prev_lite_extract>>

\* _build_doc_id: the frontmatter's session_id, or the file stem when it is empty
DocId(a) == IF a.session_id # <<>> THEN [sid |-> a.session_id, day |-> 0 - 1]
            ELSE [sid |-> a.name.safe_id, day |-> a.name.day]

\* collection.upsert(documents=[body], ids=[doc_id])
Upsert(coll, id, body) == {d \in coll : d.id # id} \cup {[id |-> id, body |-> body]}

\* _index_session_file: index the file; any exception of the vector store
\* (ok = FALSE) is swallowed and leaves the collection as it was,
\* and so does a file that holds no frontmatter (_parse_markdown_file -> None).
_index_session_file(coll, a, ok) ==
    IF ok /\ a.body.kind # "none" THEN Upsert(coll, DocId(a), a.body) ELSE coll

\* an exception of index_session_file leaving _index_session_file
IndexRaises(m, kind, ok) == IF ok THEN "done" ELSE "raised"

\* run_capture without the `else`: a full capture that wrote its result goes
\* on to write_stub_summary
AfterIndexFallThrough(m, kind, ok) ==
    IF m = "lite" /\ kind = "result" THEN "mark"
    ELSE IF kind = "result" THEN "write"
    ELSE "done"

\* where run_capture goes when _index_session_file has returned: its
\* `except Exception: pass` makes the outcome of the indexing irrelevant
AfterIndex(m, kind, ok) ==
    IF m = "lite" /\ kind = "result" THEN "mark" ELSE "done"

\* run_capture, lines 416, 424, 458, 467: the file just written is indexed.
IndexArtifact(p, ok) ==
    /\ pc[p] = "index"
    /\ log' = [log EXCEPT ![p] = Append(@, "index")]
    /\ index' = _index_session_file(
                    index, CHOOSE f \in sessions : f.name = session_path[p], ok)
    /\ pc' = [pc EXCEPT ![p] = AfterIndex(mode[p], content[p].kind, ok)]
    /\ UNCHANGED aux
    /\ UNCHANGED <<state_file, sessions, clock, runs, mode, input, cfg_enabled,
                   checked_at, request, settings, message_count, transcript_hash,
                   result, content, session_path, started_at, last_lite_extract,
                   prev_lite_extract>>

\* the history once invocation p has recorded its capture
Consumed(p) ==
    IF Truthy(result[p]) THEN consumed
    ELSE consumed \cup {[session_id |-> Str(session_id[p]),
                         transcript_hash |-> transcript_hash[p]]}

\* _mark_intermediate_capture (lines 460, 464)
Mark(p) ==
    /\ pc[p] = "mark"
    /\ state_file' = MarkedState(Str(session_id[p]), transcript_hash[p], now)
    /\ log' = [log EXCEPT ![p] = Append(@, "mark")]
    /\ pc' = [pc EXCEPT ![p] = "done"]
    /\ consumed' = Consumed(p)
    /\ UNCHANGED beside_capture
    /\ UNCHANGED <<sessions, index, clock, runs, mode, input, cfg_enabled, checked_at,
                   request, settings, message_count, transcript_hash, result, content,
                   session_path, started_at, last_lite_extract, prev_lite_extract>>

\* the hook process exits: the request and everything derived from it is gone
ProcessExit(p) ==
    /\ pc[p] \in Finished
    /\ pc' = [pc EXCEPT ![p] = "idle"]
    /\ mode' = [mode EXCEPT ![p] = "full"]
    /\ input' = [input EXCEPT ![p] = "empty"]
    /\ cfg_enabled' = [cfg_enabled EXCEPT ![p] = TRUE]
    /\ checked_at' = [checked_at EXCEPT ![p] = 0]
    /\ session_id' = [session_id EXCEPT ![p] = PyNone]
    /\ transcript_path' = [transcript_path EXCEPT ![p] = PyNone]
    /\ min_interval_seconds' = [min_interval_seconds EXCEPT ![p] = 0]
    /\ timeout_seconds' = [timeout_seconds EXCEPT ![p] = 0]
    /\ message_count' = [message_count EXCEPT ![p] = 0 - 1]
    /\ transcript_hash' = [transcript_hash EXCEPT ![p] = <<>>]
    /\ result' = [result EXCEPT ![p] = PyAbsent]
    /\ content' = [content EXCEPT ![p] = NoContent]
    /\ session_path' = [session_path EXCEPT ![p] = FileName(0, <<>>)]
    /\ started_at' = [started_at EXCEPT ![p] = 0]
    /\ log' = [log EXCEPT ![p] = <<>>]
    /\ prev_lite_extract' = [prev_lite_extract EXCEPT ![p] = 0 - 1]
    /\ UNCHANGED aux
    /\ UNCHANGED <<shared, clock, runs, last_lite_extract>>

\* the wall clock advances: between invocations and while a child runs (the
\* other steps take no measurable time)
Tick(max_runs) ==
    /\ \A p \in Procs : pc[p] \in {"idle", "extracting"}
    /\ runs < max_runs \/ \E p \in Procs : pc[p] = "extracting"
    /\ ticks < MaxTicks
    /\ ticks' = ticks + 1
    /\ now' = now + TickSeconds
    /\ UNCHANGED aux
    /\ UNCHANGED <<shared, runs, pc, locals, input, cfg_enabled, checked_at,
                   last_lite_extract>>

\* One step of invocation p, its inputs drawn from the given sets; at most
\* max_runs invocations are started.
Step(p, payloads, files, configs, max_runs) ==
    \/ \E m \in Modes, raw \in payloads : runs < max_runs /\ Start(p, m, raw)
    \/ \E file \in files, cfg \in configs : Parse(p, file, cfg)
    \/ Throttle(p)
    \/ ExtractStart(p)
    \/ \E o \in Outcomes : ExtractReturn(p, o)
    \/ WriteArtifact(p)
    \/ \E ok \in BOOLEAN : IndexArtifact(p, ok)
    \/ Mark(p)
    \/ ProcessExit(p)

\* Spec: one invocation at a time, every payload, transcript and configuration.
Next ==
    \/ \E p \in SeqProcs : Step(p, Payloads, Files, Configs, MaxRuns)
    \/ Tick(MaxRuns)

Spec == Init /\ [][Next]_vars

\* ---- overlapping invocations -------------------------------------------
\* Two hook processes of one project run at the same time.  Nothing in
\* run_capture locks the throttle state file or the artifact file, so the
\* steps of the two invocations interleave freely; Path.write_text is
\* open(path, "w") -- which creates or truncates the file -- followed by a
\* write at offset 0 of the writer's own descriptor.

MaxConcRuns == 2

\* the bytes a file holds after `text` is written at offset 0 over `old`
Overlay(text, old) ==
    IF Len(old) > Len(text) THEN text \o SubSeq(old, Len(text) + 1, Len(old))
    ELSE text

\* write_session_file, output_path.write_text, first half: the file is
\* created or truncated; its name is fixed by the clock at this moment.
OpenArtifact(p) ==
    /\ pc[p] = "write"
    /\ IF session_id[p].t # "str"
          THEN /\ pc' = [pc EXCEPT ![p] = "raised"]
               /\ UNCHANGED <<sessions, session_path>>
          ELSE LET a == Artifact(now, Str(session_id[p]), Str(transcript_path[p]),
                                 NoContent)
               IN /\ sessions' = {f \in sessions : f.name # a.name} \cup {a}
                  /\ session_path' = [session_path EXCEPT ![p] = a.name]
                  /\ pc' = [pc EXCEPT ![p] = "writing"]
    /\ UNCHANGED aux
    /\ UNCHANGED <<state_file, index, clock, runs, mode, input, cfg_enabled, checked_at,
                   request, settings, message_count, transcript_hash, result, content,
                   started_at, log, last_lite_extract, prev_lite_extract>>

\* write_session_file, output_path.write_text, second half: the text goes to
\* offset 0 of whatever the file holds by now.  Both invocations write the
\* same frontmatter (same session, same transcript path, timestamps of equal
\* length), so only the bodies can differ.
WriteData(p) ==
    /\ pc[p] = "writing"
    /\ LET old == CHOOSE f \in sessions : f.name = session_path[p]
           data == [content[p] EXCEPT !.text = Overlay(content[p].text, old.body.text)]
       IN sessions' = {f \in sessions : f.name # old.name}
                          \cup {[old EXCEPT !.body = data]}
    /\ log' = [log EXCEPT ![p] = Append(@, "write")]
    /\ pc' = [pc EXCEPT ![p] = "index"]
    /\ UNCHANGED aux
    /\ UNCHANGED <<state_file, index, clock, runs, mode, input, cfg_enabled, checked_at,
                   request, settings, message_count, transcript_hash, result, content,
                   session_path, started_at, last_lite_extract, prev_lite_extract>>

\* _write_intermediate_state, path.write_text, first half: the state file is
\* truncated; a reader finds text json.loads rejects.
OpenState(p) ==
    /\ pc[p] = "mark"
    /\ state_file' = StateFile("notjson", <<>>, <<>>, TRUE, 0)
    /\ pc' = [pc EXCEPT ![p] = "marking"]
    /\ UNCHANGED aux
    /\ UNCHANGED <<sessions, index, clock, runs, mode, input, cfg_enabled, checked_at,
                   request, settings, message_count, transcript_hash, result, content,
                   session_path, started_at, log, last_lite_extract, prev_lite_extract>>

\* _write_intermediate_state, second half: the JSON text is written.  The
\* two invocations write records of one session and one length, so the
\* later write replaces the earlier one whole.
WriteState(p) ==
    /\ pc[p] = "marking"
    /\ state_file' = MarkedState(Str(session_id[p]), transcript_hash[p], now)
    /\ log' = [log EXCEPT ![p] = Append(@, "mark")]
    /\ pc' = [pc EXCEPT ![p] = "done"]
    /\ consumed' = Consumed(p)
    /\ UNCHANGED beside_capture
    /\ UNCHANGED <<sessions, index, clock, runs, mode, input, cfg_enabled, checked_at,
                   request, settings, message_count, transcript_hash, result, content,
                   session_path, started_at, last_lite_extract, prev_lite_extract>>

\* the one session both invocations capture, its transcript and configuration
ConcPayload == Obj(PyStr(S1), PyAbsent, PyStr(T1), PyStr(PROJ), PyAbsent)
ConcFile == File(<<UserHello>>)
ConcConfigs ==
    { DEFAULT_CONFIG,
      [DEFAULT_CONFIG EXCEPT !.intermediate_capture_min_interval_seconds = 0] }

\* what the extraction subprocess can do: two answers of different length,
\* or a timeout
ConcOutcomes ==
    { Outcome(TRUE, FALSE, 0, <<" ", "o", "k", NL>>, FALSE),
      Outcome(TRUE, FALSE, 0, <<"f", "i", "n", "e">>, FALSE),
      Outcome(TRUE, TRUE, 0, <<>>, FALSE) }

ConcStep(p) ==
    \/ runs < MaxConcRuns /\ Invoke(p, "lite", ConcPayload)
    \/ \E cfg \in ConcConfigs : Parse(p, ConcFile, cfg)
    \/ Throttle(p)
    \/ ExtractStart(p)
    \/ \E o \in ConcOutcomes : ExtractReturn(p, o)
    \/ OpenArtifact(p)
    \/ WriteData(p)
    \/ \E ok \in BOOLEAN : IndexArtifact(p, ok)
    \/ OpenState(p)
    \/ WriteState(p)
    \/ ProcessExit(p)

InitConc == Init /\ state_file.kind = "missing"

NextConc ==
    \/ \E p \in Procs : ConcStep(p)
    \/ Tick(MaxConcRuns)

\* SpecConc: two lite captures of one session, overlapping in every way.
SpecConc == InitConc /\ [][NextConc]_vars

\* SpecSeq: a longer sequence of non-overlapping invocations whose payloads
\* name a transcript and whose transcripts parse.
SeqPayloads ==
    { Obj(PyStr(S1), PyAbsent, PyStr(T1), PyStr(PROJ), PyAbsent),
      Obj(PyAbsent, PyStr(S2), PyStr(T1), PyAbsent, PyRoots),
      Obj(PyNone, PyNone, PyStr(T1), PyStr(PROJ), PyAbsent) }

SeqFiles ==
    { File(<<UserHello>>),
      File(<<UserHello, NonRec("blank"), AssistantAB>>) }

SeqConfigs ==
    { DEFAULT_CONFIG,
      [DEFAULT_CONFIG EXCEPT !.intermediate_capture_min_interval_seconds = 0] }

NextSeq ==
    \/ \E p \in SeqProcs : Step(p, SeqPayloads, SeqFiles, SeqConfigs, MaxSeqRuns)
    \/ Tick(MaxSeqRuns)

SpecSeq == Init /\ [][NextSeq]_vars

\* ---- a project that already holds session artifacts ---------------------
MaxSeeded == 4

\* DEFAULT_CONFIG["consolidation_threshold"]
CONSOLIDATION_THRESHOLD == 5

\* an artifact written by an earlier capture of another session
Seed(i) == Artifact(StartTime, <<"x", ToString(i)>>, T1, ResultContent(<<"o", "k">>))

\* sessions directories with 0..MaxSeeded artifacts of earlier sessions
SeededDirs == { {Seed(i) : i \in 1..n} : n \in 0..MaxSeeded }

InitSeeded ==
    /\ \E files \in SeededDirs : CaptureFrom(files)
    /\ state_file.kind = "missing"
    /\ ExtractIdle /\ TextIdle /\ RetrieveIdle

\* one capture of session S1, in either mode, under the default configuration
NextSeeded ==
    \/ \E p \in SeqProcs :
           Step(p, {Obj(PyStr(S1), PyAbsent, PyStr(T1), PyStr(PROJ), PyAbsent)},
                SeqFiles, {DEFAULT_CONFIG}, 1)
    \/ Tick(1)

\* SpecSeeded: one capture in a project with earlier artifacts on disk.
SpecSeeded == InitSeeded /\ [][NextSeeded]_vars

\* ---- a run of lite captures ----------------------------------------------
MaxLiteRuns == 3

\* The hook process is killed, or interrupted by a signal, while it waits in
\* run_claude_extraction (capture.py 455): no handler of run_capture runs,
\* nothing more is written and the process is gone.
Interrupt(p) ==
    /\ pc[p] = "extracting"
    /\ pc' = [pc EXCEPT ![p] = "raised"]
    /\ UNCHANGED aux
    /\ UNCHANGED <<shared, clock, runs, mode, input, cfg_enabled, checked_at, request,
                   settings, message_count, transcript_hash, result, content,
                   session_path, started_at, log, last_lite_extract,
                   prev_lite_extract>>

\* payloads of two sessions of one project
TwoSessions ==
    { Obj(PyStr(S1), PyAbsent, PyStr(T1), PyStr(PROJ), PyAbsent),
      Obj(PyAbsent, PyStr(S2), PyStr(T1), PyAbsent, PyRoots) }

\* the extraction answers, or runs into its deadline
LiteOutcomes ==
    { Outcome(TRUE, FALSE, 0, <<" ", "o", "k", NL>>, FALSE),
      Outcome(TRUE, TRUE, 0, <<>>, FALSE) }

LiteStep(p) ==
    \/ \E raw \in TwoSessions : runs < MaxLiteRuns /\ Start(p, "lite", raw)
    \/ \E cfg \in SeqConfigs : Parse(p, File(<<UserHello>>), cfg)
    \/ Throttle(p)
    \/ ExtractStart(p)
    \/ \E o \in LiteOutcomes : ExtractReturn(p, o)
    \/ Interrupt(p)
    \/ WriteArtifact(p)
    \/ \E ok \in BOOLEAN : IndexArtifact(p, ok)
    \/ Mark(p)
    \/ ProcessExit(p)

InitLite == Init /\ state_file.kind = "missing"

NextLite ==
    \/ \E p \in SeqProcs : LiteStep(p)
    \/ Tick(MaxLiteRuns)

\* SpecLite: non-overlapping lite captures of two sessions of one project,
\* whose transcripts do not change.
SpecLite == InitLite /\ [][NextLite]_vars

\* ------------------------------------- run_claude_extraction, step by step
\* The call's inputs: nul (the prompt holds a NUL byte, which Popen rejects
\* with ValueError), launch (the command can be started), the child's exit
\* status and output, holder (a descendant of the child that keeps the
\* stdout pipe open: none, one in the child's process group, one that left
\* the group), auto_reap (SIGCHLD is ignored, so the kernel reaps an exited
\* child at once).
ExtractInputs ==
    [nul : BOOLEAN, launch : BOOLEAN, returncode : {0, 1},
     stdout : {<<" ", "o", "k", NL>>, <<" ", NL>>},
     holder : {"none", "ingroup", "escaped"}, auto_reap : BOOLEAN]

InitExtract ==
    /\ CaptureInit
    /\ state_file.kind = "missing"
    /\ TextIdle
    /\ RetrieveIdle
    /\ xpc = "popen"
    /\ xin \in ExtractInputs
    /\ child = "none"
    /\ holder = "none"
    /\ kills = 0
    /\ expired = FALSE
    /\ xret = PyAbsent
    /\ in_time = FALSE

\* what an exiting child becomes
Exited == IF xin.auto_reap THEN "gone" ELSE "zombie"

\* lines 289-295: subprocess.Popen; OSError is caught (304-305), ValueError
\* is not
Popen ==
    /\ xpc = "popen"
    /\ IF xin.nul
          THEN xpc' = "raised" /\ UNCHANGED <<child, holder, xret>>
       ELSE IF ~xin.launch
          THEN xpc' = "returned" /\ xret' = PyNone /\ UNCHANGED <<child, holder>>
       ELSE /\ xpc' = "communicate"
            /\ child' = "running"
            /\ holder' = xin.holder
            /\ UNCHANGED xret
    /\ UNCHANGED <<xin, kills, expired, in_time, beside_extract>>

\* the child exits by itself
ChildExit ==
    /\ child = "running"
    /\ child' = Exited
    /\ in_time' = (xpc = "communicate")
    /\ UNCHANGED <<xpc, xin, holder, kills, expired, xret, beside_extract>>

\* the descendant holding the pipe exits by itself
HolderExit ==
    /\ holder \in {"ingroup", "escaped"}
    /\ holder' = "dead"
    /\ UNCHANGED <<xpc, xin, child, kills, expired, xret, in_time, beside_extract>>

\* the wait inside communicate(): EOF on the pipes, then waitpid
CanReap == child \in {"zombie", "gone"} /\ holder \in {"none", "dead"}

\* lines 296-299: communicate(timeout) returns.  Popen reports status 0 for a
\* child the kernel has already reaped.
CommunicateReturn ==
    /\ xpc = "communicate"
    /\ CanReap
    /\ LET returncode == IF child = "gone" THEN 0 ELSE xin.returncode
           out == Strip(xin.stdout)
       IN xret' = IF returncode = 0 /\ out # <<>> THEN PyStr(out) ELSE PyNone
    /\ child' = IF child = "zombie" THEN "reaped" ELSE child
    /\ xpc' = "returned"
    /\ UNCHANGED <<xin, holder, kills, expired, in_time, beside_extract>>

\* line 300: the deadline passes while communicate is still waiting, and it
\* raises TimeoutExpired
Timeout ==
    /\ xpc = "communicate"
    /\ ~CanReap
    /\ expired' = TRUE
    /\ xpc' = "kill"
    /\ UNCHANGED <<xin, child, holder, kills, xret, in_time, beside_extract>>

\* line 301: os.killpg(os.getpgid(proc.pid), SIGKILL), inside the handler:
\* getpgid raises ProcessLookupError when the child is no longer there
Kill ==
    /\ xpc = "kill"
    /\ IF child = "gone"
          THEN xpc' = "raised" /\ UNCHANGED <<child, holder, kills>>
          ELSE /\ kills' = kills + 1
               /\ child' = IF child = "running" THEN Exited ELSE child
               /\ holder' = IF holder = "ingroup" THEN "dead" ELSE holder
               /\ xpc' = "reap"
    /\ UNCHANGED <<xin, expired, xret, in_time, beside_extract>>

\* lines 302-303: proc.communicate() with no timeout, then return None
Reap ==
    /\ xpc = "reap"
    /\ CanReap
    /\ child' = IF child = "zombie" THEN "reaped" ELSE child
    /\ xret' = PyNone
    /\ xpc' = "returned"
    /\ UNCHANGED <<xin, holder, kills, expired, in_time, beside_extract>>

\* the steps run_claude_extraction itself takes
ExtractionStep == Popen \/ CommunicateReturn \/ Timeout \/ Kill \/ Reap

NextExtract ==
    \/ Popen
    \/ ChildExit
    \/ HolderExit
    \/ CommunicateReturn
    \/ Timeout
    \/ Kill
    \/ Reap

SpecExtract == InitExtract /\ [][NextExtract]_vars

\* the interpreter keeps running the function; the child and its descendants
\* owe nothing
SpecExtractLive == SpecExtract /\ WF_vars(ExtractionStep)

\* ---------------------------------------- the text functions, one call each
\* parse_transcript and assemble_transcript_text are pure: a behaviour is one
\* call on arguments drawn from the sets below.
MaxMessages == 2
MaxLines == 2
MaxBudget == 14

\* the sequences over S of length at most n
SeqsUpTo(S, n) == UNION {[1..k -> S] : k \in 0..n}

\* a message as parse_transcript builds it (capture.py 238-243)
Message(role, text) == [role |-> role, content |-> text, uuid |-> PyStr(<<>>)]

TextMessages ==
    {Message(r, c) : r \in {PyStr(USER), PyStr(ASSISTANT), PyNone},
                     c \in {<<" ", NL>>, HELLO, <<" ", "h", "i", NL>>}}

\* a user record with no "message" key, and an assistant record whose message
\* names another role
UserBare == Rec(PyStr(USER), PyAbsent, "absent", PyAbsent, "absent", <<>>, <<>>)
RoleSwap == Rec(PyStr(ASSISTANT), PyAbsent, "dict", PyStr(USER), "str", HELLO, <<>>)

TextLines ==
    { NonRec("blank"), NonRec("invalid"), NonRec("scalar"), UserHello,
      AssistantAB, Summary, BadMessage, NullRole, UserBare, RoleSwap }

\* ---- format_context (retrieve.py)
MaxDocs == 3
MaxTokens == 2

\* the separator format_context joins with
Separator == <<NL, NL, "-", "-", "-", NL, NL>>

\* s[-k:] for k > 0: the other end of the document
SuffixSlice(s, k) == SubSeq(s, (IF k < Len(s) THEN Len(s) - k + 1 ELSE 1), Len(s))

\* s[:k] for k > 0
Prefix(s, k) == SubSeq(s, 1, IF k < Len(s) THEN k ELSE Len(s))

\* the loop of format_context (retrieve.py 73-83): parts, given the budget in
\* characters and the total accepted so far
RECURSIVE FormatParts(_, _, _)
FormatParts(documents, max_chars, total) ==
    IF documents = <<>> THEN <<>>
    ELSE LET doc == Head(documents)
             doc_chars == Len(doc)
             remaining == max_chars - total
         IN IF total + doc_chars > max_chars
               THEN (IF remaining > 0 THEN << Prefix(doc, remaining) >> ELSE <<>>)
               ELSE <<doc>> \o FormatParts(Tail(documents), max_chars, total + doc_chars)

format_context(documents, token_budget) ==
    Join(Separator, FormatParts(documents, token_budget * 4, 0))

\* documents as the vector store returns them
TextDocs ==
    { <<>>, <<"a">>, <<"b", "c", "d">>, <<"e", "f", "g", "h">>,
      <<"i", "j", "k", "l", "m">> }

FormatCall(documents, token_budget) ==
    [fn |-> "format", documents |-> documents, token_budget |-> token_budget]

\* ---- write_session_file: the artifact's file name
\* session ids of more than SafeIdLen characters that agree on the first
\* SafeIdLen
LONG1 == <<"a", "b", "c", "d", "e", "f", "g", "h", "1">>
LONG2 == <<"a", "b", "c", "d", "e", "f", "g", "h", "2">>

PairSessions == {S1, S2, LONG1, LONG2}
PairTimes == {StartTime, StartTime + DaySeconds}

\* two captures: the session and the time of each
PairCall(sid1, t1, sid2, t2) ==
    [fn |-> "write_pair", first |-> [session_id |-> sid1, at |-> t1],
     second |-> [session_id |-> sid2, at |-> t2]]

\* ---- the artifact as text: write_session_file and _parse_markdown_file
\* the least i >= from at which pat occurs in s; 0 when it does not
Find(s, pat, from) ==
    LET hits == {i \in from..(Len(s) - Len(pat) + 1) :
                    SubSeq(s, i, i + Len(pat) - 1) = pat}
    IN IF hits = {} THEN 0 ELSE CHOOSE i \in hits : \A j \in hits : i <= j

Dashes == <<"-", "-", "-">>
SESSION_ID == <<"session_id">>
TIMESTAMP == <<"timestamp">>
TRANSCRIPT_PATH == <<"transcript_path">>

\* datetime.now(timezone.utc).isoformat(), and its first 10 characters
IsoFormat(t) == <<ToString(Day(t)), "T", ToString(t % DaySeconds)>>
DateText(t) == <<ToString(Day(t))>>

\* the text write_session_file writes (capture.py 332-342)
SessionFileText(sid, t, tp, body) ==
    Dashes \o <<NL>>
    \o SESSION_ID \o <<":", " ">> \o sid \o <<NL>>
    \o TIMESTAMP \o <<":", " ">> \o IsoFormat(t) \o <<NL>>
    \o TRANSCRIPT_PATH \o <<":", " ">> \o tp \o <<NL>>
    \o Dashes \o <<NL, NL>>
    \o body

\* Path(filename).stem
Stem(t, sid) == DateText(t) \o <<"-">> \o SafeId(sid)

\* content.split("---", 2)
SplitFrontmatter(text) ==
    LET i == Find(text, Dashes, 1) IN
    IF i = 0 THEN <<text>>
    ELSE LET j == Find(text, Dashes, i + 3) IN
         IF j = 0
            THEN << SubSeq(text, 1, i - 1), SubSeq(text, i + 3, Len(text)) >>
            ELSE << SubSeq(text, 1, i - 1), SubSeq(text, i + 3, j - 1),
                    SubSeq(text, j + 3, Len(text)) >>

\* the lines of a text
RECURSIVE SplitLines(_)
SplitLines(s) ==
    LET i == Find(s, <<NL>>, 1) IN
    IF i = 0 THEN <<s>>
    ELSE <<SubSeq(s, 1, i - 1)>> \o SplitLines(SubSeq(s, i + 1, Len(s)))

Digits == {"0", "1", "2", "3", "4", "5", "6", "7", "8", "9"}
IsDigits(w) == w # <<>> /\ \A i \in 1..Len(w) : w[i] \in Digits

\* a YAML plain scalar as yaml.safe_load resolves it: " #" starts a comment,
\* ": " inside the value (or ":" at its end) is a scanner error, an empty
\* value is None, digits are an int, anything else is the trimmed text
YamlScalar(v) ==
    LET c == Find(v, <<" ", "#">>, 1)
        w == Strip(IF c = 0 THEN v ELSE SubSeq(v, 1, c - 1))
    IN IF Find(w, <<":", " ">>, 1) # 0 \/ (w # <<>> /\ w[Len(w)] = ":") THEN PyRaise
       ELSE IF w = <<>> THEN PyNone
       ELSE IF IsDigits(w) THEN [t |-> "int", v |-> w]
       ELSE PyStr(w)

\* one "key: value" line of a block mapping: [ok, key, value]
YamlLine(line) ==
    LET c == Find(line \o <<" ">>, <<":", " ">>, 1) IN
    IF c = 0 THEN [ok |-> FALSE, key |-> <<>>, value |-> PyRaise]
    ELSE LET value == YamlScalar(SubSeq(line, c + 1, Len(line)))
         IN [ok |-> value.t # "raise", key |-> SubSeq(line, 1, c - 1), value |-> value]

\* yaml.safe_load(text) or {} for a block mapping of plain scalars:
\* [raised, entries]; a later key replaces an earlier one
safe_load(text) ==
    LET IsEntry(line) == Strip(line) # <<>>
        entries == SelectSeq(SplitLines(text), IsEntry)
        parsed == [i \in 1..Len(entries) |-> YamlLine(entries[i])]
    IN [raised |-> \E i \in 1..Len(parsed) : ~parsed[i].ok, entries |-> parsed]

\* frontmatter.get(key): PyAbsent when the key is missing
FmGet(fm, key) ==
    LET at == {i \in 1..Len(fm) : fm[i].key = key} IN
    IF at = {} THEN PyAbsent
    ELSE fm[CHOOSE i \in at : \A j \in at : j <= i].value

\* _parse_markdown_file (storage.py 23-35): "none", "raise", or "parsed"
\* with the frontmatter and the body
_parse_markdown_file(text) ==
    LET parts == SplitFrontmatter(text)
        none == [kind |-> "none", fm |-> <<>>, body |-> <<>>]
    IN IF Len(parts) < 3 THEN none
       ELSE LET fm == safe_load(parts[2])
                body == Strip(parts[3])
            IN IF fm.raised THEN [kind |-> "raise", fm |-> <<>>, body |-> <<>>]
               ELSE IF body = <<>> THEN none
               ELSE [kind |-> "parsed", fm |-> fm.entries, body |-> body]

\* _build_doc_id for a session document, as the str that is stored
\* (storage.py 47, 75)
_build_doc_id(frontmatter, fallback_stem) ==
    LET sid == FmGet(frontmatter, SESSION_ID) IN
    IF Truthy(sid) THEN Str(sid) ELSE fallback_stem

\* index_markdown_file (storage.py 50-75) on a healthy vector store:
\* [raised, coll]
index_markdown_file(coll, stem, text) ==
    LET parsed == _parse_markdown_file(text) IN
    IF parsed.kind = "raise" THEN [raised |-> TRUE, coll |-> coll]
    ELSE IF parsed.kind = "none" THEN [raised |-> FALSE, coll |-> coll]
    ELSE [raised |-> FALSE,
          coll |-> {d \in coll : d.id # _build_doc_id(parsed.fm, stem)}
                   \cup {[id |-> _build_doc_id(parsed.fm, stem), body |-> parsed.body]}]

\* session ids and transcript paths a payload can carry
FileSessions ==
    { S1, LONG1, <<"4", "2">>, <<"a", ":", " ", "b">>, <<"a", "-", "-", "-", "b">> }
FilePaths == { T1, <<"t", " ", "#", "1">> }
FileBodies == { <<"o", "k">>, <<"-", "-", "-", NL, "x">> }

\* write a session artifact, then parse it
RoundTripCall(sid, tp, body) ==
    [fn |-> "roundtrip", session_id |-> sid, transcript_path |-> tp, content |-> body]

\* write a session artifact, then index it twice into a collection
IndexCall(sid, tp, body, coll) ==
    [fn |-> "index", session_id |-> sid, transcript_path |-> tp, content |-> body,
     coll |-> coll]

IndexedBefore == { {}, {[id |-> <<"a">>, body |-> <<"o", "l", "d">>]} }

\* reindex (storage.py 100-171) over the files of .thehook/sessions, on a
\* healthy vector store: [raised, coll, count].  The collection is dropped
\* and created empty first; every file is parsed (an exception of
\* yaml.safe_load is not caught); the documents of all valid files go into
\* one collection.add call, which rejects a batch that names an id twice
\* (DuplicateIDError) and then adds nothing.
reindex_batch(parsed) ==
    LET valid == {x \in parsed : x.p.kind = "parsed"}
        Id(x) == _build_doc_id(x.p.fm, x.stem)
        failed == [raised |-> TRUE, coll |-> {}, count |-> 0 - 1]
    IN IF parsed = {} THEN [raised |-> FALSE, coll |-> {}, count |-> 0]
       ELSE IF \E x \in parsed : x.p.kind = "raise" THEN failed
       ELSE IF valid = {} THEN [raised |-> FALSE, coll |-> {}, count |-> 0]
       ELSE IF \E x, y \in valid : x # y /\ Id(x) = Id(y) THEN failed
       ELSE [raised |-> FALSE,
             coll |-> {[id |-> Id(x), body |-> x.p.body] : x \in valid},
             count |-> Cardinality(valid)]

\* reindex: every file of the directory is parsed once, then the batch is added
reindex(files, coll) ==
    LET parsed == [f \in files |-> [stem |-> f.stem, p |-> _parse_markdown_file(f.text)]]
    IN CHOOSE r \in {reindex_batch({fn[f] : f \in files}) : fn \in {parsed}} : TRUE

\* a file of the sessions directory
MdFile(stem, text) == [stem |-> stem, text |-> text]

\* files the sessions directory can hold: artifacts of two sessions written
\* on two days, an artifact whose body is blank, a note without frontmatter
SessionFiles ==
    { MdFile(Stem(t, sid), SessionFileText(sid, t, T1, <<"o", "k">>)) :
          sid \in {S1, LONG1}, t \in PairTimes }
    \cup { MdFile(Stem(StartTime, S2), SessionFileText(S2, StartTime, T1, <<" ", NL>>)),
           MdFile(<<"n", "o", "t", "e">>, <<"h", "i">>) }

\* reindex over a sessions directory and a collection
ReindexCall(files, coll) == [fn |-> "reindex", files |-> files, coll |-> coll]

\* session ids of a sequence of captures: two plain ones and one that YAML
\* reads as the int 0
IndexSessions == { S1, S2, <<"0">> }

\* two full captures, one after the other: the session and the time of each
CapturesCall(sid1, t1, sid2, t2) ==
    [fn |-> "captures", first |-> [session_id |-> sid1, at |-> t1],
     second |-> [session_id |-> sid2, at |-> t2]]

\* the summaries the first and the second capture write
FirstBody == <<"o", "l", "d">>
SecondBody == <<"n", "e", "w">>

\* write_session_file at time t followed by _index_session_file on the file
\* written (capture.py 457-458): an exception of index_session_file is
\* swallowed and leaves the collection as it was
WriteAndIndex(coll, sid, t, body) ==
    index_markdown_file(coll, Stem(t, sid), SessionFileText(sid, t, T1, body)).coll

AssembleCall(messages, max_chars) ==
    [fn |-> "assemble", messages |-> messages, max_chars |-> max_chars,
     transcript_path |-> PyAbsent, file |-> MissingFile]

ParseCall(path, file) ==
    [fn |-> "parse", messages |-> <<>>, max_chars |-> 0,
     transcript_path |-> path, file |-> file]

TextCalls ==
    {AssembleCall(m, k) : m \in SeqsUpTo(TextMessages, MaxMessages), k \in 0..MaxBudget}
    \cup {ParseCall(PyStr(T1), File(l)) : l \in SeqsUpTo(TextLines, MaxLines)}
    \cup {ParseCall(PyStr(T1), MissingFile)}
    \cup {FormatCall(d, b) : d \in SeqsUpTo(TextDocs, MaxDocs), b \in 0..MaxTokens}
    \cup {RoundTripCall(sid, tp, b) :
              sid \in FileSessions, tp \in FilePaths, b \in FileBodies}
    \cup {IndexCall(sid, T1, b, c) :
              sid \in FileSessions, b \in FileBodies, c \in IndexedBefore}
    \cup {PairCall(s1, t1, s2, t2) : s1 \in PairSessions, s2 \in PairSessions,
                                     t1 \in PairTimes, t2 \in PairTimes}
    \cup {ReindexCall(f, c) : f \in SUBSET SessionFiles, c \in IndexedBefore}
    \cup {c \in {CapturesCall(s1, t1, s2, t2) :
                      s1 \in IndexSessions, s2 \in IndexSessions,
                      t1 \in PairTimes, t2 \in PairTimes} :
              c.first.at <= c.second.at}

InitText ==
    /\ CaptureInit
    /\ state_file.kind = "missing"
    /\ ExtractIdle
    /\ RetrieveIdle
    /\ call \in TextCalls
    /\ ret = PyAbsent

\* assemble_transcript_text(messages, max_chars): msg["role"].upper() raises
\* for a role that is no str (line 265), before the content is looked at
AssembleTranscriptText ==
    /\ call.fn = "assemble"
    /\ ret.t = "absent"
    /\ ret' = IF RolesAreStr(call.messages)
                 THEN PyStr(assemble_transcript_text(call.messages, call.max_chars))
                 ELSE PyRaise
    /\ UNCHANGED <<call, beside_text>>

\* parse_transcript(transcript_path)
ParseTranscript ==
    /\ call.fn = "parse"
    /\ ret.t = "absent"
    /\ LET r == parse_transcript(call.transcript_path, call.file) IN
       ret' = IF r.raised THEN PyRaise ELSE [t |-> "list", v |-> r.messages]
    /\ UNCHANGED <<call, beside_text>>

\* format_context(documents, token_budget)
FormatContext ==
    /\ call.fn = "format"
    /\ ret.t = "absent"
    /\ ret' = PyStr(format_context(call.documents, call.token_budget))
    /\ UNCHANGED <<call, beside_text>>

\* write_session_file called by two captures: the paths written (lines 328-342)
WriteSessionFiles ==
    /\ call.fn = "write_pair"
    /\ ret.t = "absent"
    /\ ret' = [t |-> "paths",
               v |-> << FileName(call.first.at, call.first.session_id),
                        FileName(call.second.at, call.second.session_id) >>]
    /\ UNCHANGED <<call, beside_text>>

\* write_session_file, then _parse_markdown_file on the file written
WriteThenParse ==
    /\ call.fn = "roundtrip"
    /\ ret.t = "absent"
    /\ LET text == SessionFileText(call.session_id, now, call.transcript_path,
                                   call.content)
           parsed == _parse_markdown_file(text)
       IN ret' = [t |-> parsed.kind,
                  v |-> [session_id |-> FmGet(parsed.fm, SESSION_ID),
                         transcript_path |-> FmGet(parsed.fm, TRANSCRIPT_PATH)],
                  body |-> parsed.body]
    /\ UNCHANGED <<call, beside_text>>

\* write_session_file once, then index_session_file on the file: the first
\* and the second time
IndexSessionFile ==
    /\ call.fn = "index"
    /\ ret.t \in {"absent", "once"}
    /\ LET text == SessionFileText(call.session_id, now, call.transcript_path,
                                   call.content)
           stem == Stem(now, call.session_id)
       IN IF ret.t = "absent"
             THEN ret' = [t |-> "once",
                          v |-> << index_markdown_file(call.coll, stem, text) >>]
             ELSE ret' = [t |-> "twice",
                          v |-> Append(ret.v,
                                   index_markdown_file(ret.v[1].coll, stem, text))]
    /\ UNCHANGED <<call, beside_text>>

\* reindex(project_dir)
Reindex ==
    /\ call.fn = "reindex"
    /\ ret.t = "absent"
    /\ LET r == reindex(call.files, call.coll) IN
       ret' = [t |-> IF r.raised THEN "raise" ELSE "int", v |-> r.count, coll |-> r.coll]
    /\ UNCHANGED <<call, beside_text>>

\* two captures into an empty index, one step each: the capture writes its
\* artifact and indexes it
IndexCaptures ==
    /\ call.fn = "captures"
    /\ ret.t \in {"absent", "first"}
    /\ \E cap \in {IF ret.t = "absent" THEN call.first ELSE call.second} :
       \E coll \in {IF ret.t = "absent" THEN {} ELSE ret.v} :
       \E body \in {IF ret.t = "absent" THEN FirstBody ELSE SecondBody} :
           ret' = [t |-> IF ret.t = "absent" THEN "first" ELSE "coll",
                   v |-> WriteAndIndex(coll, cap.session_id, cap.at, body)]
    /\ UNCHANGED <<call, beside_text>>

NextText ==
    \/ IndexCaptures
    \/ Reindex
    \/ WriteThenParse
    \/ IndexSessionFile
    \/ AssembleTranscriptText
    \/ ParseTranscript
    \/ FormatContext
    \/ WriteSessionFiles

SpecText == InitText /\ [][NextText]_vars

\* ---------------------------------------------------- retrieval (retrieve.py)
MaxStored == 2

\* date(1970, 1, 1).toordinal(): the day number of the epoch, counted from
\* 0001-01-01 = 1, the earliest day a datetime can hold
EpochOrdinal == 719163

SESSION_START == <<"SessionStart">>
USER_PROMPT_SUBMIT == <<"UserPromptSubmit">>
DEFAULT_RETRIEVAL_QUERY == <<"project conventions decisions gotchas architecture">>

PyInt(n) == [t |-> "int", v |-> n]

Min(a, b) == IF a < b THEN a ELSE b
Max(a, b) == IF a > b THEN a ELSE b

\* the hook payload on stdin, as run_retrieve uses it
RObj(cwd, event, prompt) ==
    [kind |-> "object", cwd |-> cwd, workspace_roots |-> PyAbsent,
     hook_event_name |-> event, prompt |-> prompt]

RNonObj(kind) ==
    [kind |-> kind, cwd |-> PyAbsent, workspace_roots |-> PyAbsent,
     hook_event_name |-> PyAbsent, prompt |-> PyAbsent]

RetrievePayloads ==
    { RNonObj("empty"), RNonObj("notjson"), RNonObj("falsy"), RNonObj("emptyobj"),
      RNonObj("scalar"),
      RObj(PyStr(PROJ), PyAbsent, PyAbsent),
      RObj(PyStr(PROJ), PyStr(USER_PROMPT_SUBMIT), PyStr(HELLO)),
      RObj(PyStr(PROJ), PyNone, PyAbsent),
      RObj(PyInt7, PyAbsent, PyAbsent) }

\* what load_config gives run_retrieve: it raised (ok = FALSE), or
\* DEFAULT_CONFIG merged with the user's thehook.yaml
RCfg(ok, token_budget, n_results, recency_days, fallback) ==
    [ok |-> ok, token_budget |-> token_budget, retrieval_n_results |-> n_results,
     retrieval_recency_days |-> recency_days,
     retrieval_recency_fallback_global |-> fallback]

NotANumber == PyStr(<<"x">>)

RetrieveConfigs ==
    { RCfg(FALSE, PyInt(0), PyInt(0), PyInt(0), TRUE),
      RCfg(TRUE, NotANumber, PyInt(1), PyInt(0), TRUE),
      RCfg(TRUE, PyInt(1), NotANumber, PyInt(0), TRUE) }
    \cup { RCfg(TRUE, PyInt(b), PyInt(n), PyInt(r), f) :
              b \in 0..MaxTokens, n \in {0, MaxStored}, r \in {0, 1}, f \in BOOLEAN }

\* the vector store: whether the collection exists, its documents in the
\* order a query ranks them (recent: the timestamp passes the recency
\* filter), and the call that raises, if any
Store(exists, stored, fault) == [exists |-> exists, docs |-> stored, fault |-> fault]

StoredDocs ==
    { [text |-> <<"b", "c", "d">>, recent |-> TRUE],
      [text |-> <<"e", "f", "g", "h">>, recent |-> FALSE],
      [text |-> <<"a">>, recent |-> FALSE] }

Faults == {"none", "count", "filtered", "global"}

Stores ==
    { Store(FALSE, <<>>, "none") }
    \cup { Store(TRUE, d, f) : d \in SeqsUpTo(StoredDocs, MaxStored), f \in Faults }

IsRecent(d) == d.recent
IsStored(d) == TRUE

\* collection.query(query_texts, n_results[, where]): the chromadb response
Query(store, n, filtered) ==
    LET hits == IF filtered THEN SelectSeq(store.docs, IsRecent)
                            ELSE SelectSeq(store.docs, IsStored)
    IN [documents |-> << [i \in 1..Min(n, Len(hits)) |-> hits[i].text] >>]

_extract_documents(results) ==
    IF results.documents = <<>> THEN <<>> ELSE results.documents[1]

\* _recency_where_clause: None, a filter, or OverflowError when the cutoff
\* would fall before 0001-01-01
_recency_where_clause(recency_days, t) ==
    IF recency_days <= 0 THEN "none"
    ELSE IF recency_days >= EpochOrdinal + Day(t) THEN "raise"
    ELSE "filter"

\* a request of exactly what the caller asked for
UnclampedN(n_results, count) == n_results

\* line 47
actual_n(n_results, count) == Min(Max(1, n_results), count)

\* line 56: the filtered result is returned
FilteredIsFinal(filtered_docs, fallback) == filtered_docs # <<>> \/ ~fallback

\* a context that is always printed
ContextAny(context) == TRUE

\* line 142: if context
ContextTruthy(context) == context # <<>>

\* an exception that leaves run_retrieve
Propagate == "raised"

\* lines 150-151: except Exception: pass
RetrieveExcept == "done"

\* _query_from_hook_input
_query_from_hook_input(hook_input) ==
    LET prompt == Strip(Str(Get(hook_input, "prompt", PyStr(<<>>))))
    IN IF prompt # <<>> THEN prompt ELSE DEFAULT_RETRIEVAL_QUERY

NoArgs == [n_results |-> 0]

\* run_retrieve, lines 115-121: read the payload, resolve the project
ReadInput ==
    /\ rpc = "start"
    /\ LET hook_input == read_hook_input(rin.payload) IN
       IF ~InputTruthy(hook_input)
          THEN rpc' = "done" /\ UNCHANGED rerrors
       ELSE IF ~IsDict(hook_input)
          THEN rpc' = RetrieveExcept /\ rerrors' = rerrors \cup {"payload"}
       ELSE IF ~ProjectDirOk(hook_input)
          THEN rpc' = RetrieveExcept /\ rerrors' = rerrors \cup {"cwd"}
       ELSE rpc' = "config" /\ UNCHANGED rerrors
    /\ UNCHANGED <<rin, rargs, queries, rdocs, rcontext, emitted, beside_retrieve>>

\* run_retrieve, lines 123-131
LoadConfig ==
    /\ rpc = "config"
    /\ LET config == rin.config IN
       IF ~config.ok
          THEN rpc' = RetrieveExcept /\ rerrors' = rerrors \cup {"config"}
               /\ UNCHANGED rargs
       ELSE IF config.retrieval_n_results.t # "int" \/ config.retrieval_recency_days.t # "int"
          THEN rpc' = RetrieveExcept /\ rerrors' = rerrors \cup {"int"}
               /\ UNCHANGED rargs
       ELSE /\ rargs' = [token_budget |-> config.token_budget,
                         n_results |-> Max(1, config.retrieval_n_results.v),
                         recency_days |-> Max(0, config.retrieval_recency_days.v),
                         fallback |-> config.retrieval_recency_fallback_global,
                         hook_event_name |->
                             Get(rin.payload, "hook_event_name", PyStr(SESSION_START)),
                         query_text |-> _query_from_hook_input(rin.payload)]
            /\ rpc' = "open"
            /\ UNCHANGED rerrors
    /\ UNCHANGED <<rin, queries, rdocs, rcontext, emitted, beside_retrieve>>

\* query_sessions, lines 41-49: open the collection, count it, build the
\* filter; every exception ends in "return []" (lines 61-62)
OpenCollection ==
    /\ rpc = "open"
    /\ LET store == rin.store
           where == _recency_where_clause(rargs.recency_days, now)
       IN IF ~store.exists \/ store.fault = "count"
             THEN rdocs' = <<>> /\ rpc' = "qreturned"
                  /\ rerrors' = rerrors \cup {"store"}
          ELSE IF Len(store.docs) = 0
             THEN rdocs' = <<>> /\ rpc' = "qreturned" /\ UNCHANGED rerrors
          ELSE IF where = "raise"
             THEN rdocs' = <<>> /\ rpc' = "qreturned"
                  /\ rerrors' = rerrors \cup {"where"}
          ELSE /\ rpc' = IF where = "filter" THEN "filtered" ELSE "global"
               /\ UNCHANGED <<rdocs, rerrors>>
    /\ UNCHANGED <<rin, rargs, queries, rcontext, emitted, beside_retrieve>>

\* query_sessions, lines 50-57: the filtered query
QueryFiltered ==
    /\ rpc = "filtered"
    /\ LET store == rin.store
           n == actual_n(rargs.n_results, Len(store.docs))
           filtered_docs == _extract_documents(Query(store, n, TRUE))
       IN /\ queries' = Append(queries, [filtered |-> TRUE, n_results |-> n,
                                         query_text |-> rargs.query_text])
          /\ IF store.fault = "filtered"
                THEN rdocs' = <<>> /\ rpc' = "qreturned"
                     /\ rerrors' = rerrors \cup {"store"}
             ELSE IF FilteredIsFinal(filtered_docs, rargs.fallback)
                THEN rdocs' = filtered_docs /\ rpc' = "qreturned" /\ UNCHANGED rerrors
             ELSE rpc' = "global" /\ UNCHANGED <<rdocs, rerrors>>
    /\ UNCHANGED <<rin, rargs, rcontext, emitted, beside_retrieve>>

\* query_sessions, lines 59-60: the unfiltered query
QueryGlobal ==
    /\ rpc = "global"
    /\ LET store == rin.store
           n == actual_n(rargs.n_results, Len(store.docs))
       IN /\ queries' = Append(queries, [filtered |-> FALSE, n_results |-> n,
                                         query_text |-> rargs.query_text])
          /\ IF store.fault = "global"
                THEN rdocs' = <<>> /\ rerrors' = rerrors \cup {"store"}
                ELSE rdocs' = _extract_documents(Query(store, n, FALSE))
                     /\ UNCHANGED rerrors
          /\ rpc' = "qreturned"
    /\ UNCHANGED <<rin, rargs, rcontext, emitted, beside_retrieve>>

\* run_retrieve, lines 140-149: format the documents and print the context.
\* A token_budget that is no number makes the comparison at line 77 raise as
\* soon as there is a document to compare.
FormatAndEmit ==
    /\ rpc = "qreturned"
    /\ rin.caller = "run_retrieve"
    /\ IF rargs.token_budget.t # "int" /\ rdocs # <<>>
          THEN /\ rpc' = RetrieveExcept
               /\ rerrors' = rerrors \cup {"format"}
               /\ UNCHANGED <<rcontext, emitted>>
          ELSE LET context == IF rargs.token_budget.t = "int"
                                 THEN format_context(rdocs, rargs.token_budget.v)
                                 ELSE <<>>
               IN /\ rcontext' = PyStr(context)
                  /\ emitted' = IF ContextTruthy(context)
                                   THEN Append(emitted,
                                            [hookEventName |-> rargs.hook_event_name,
                                             additionalContext |-> context])
                                   ELSE emitted
                  /\ rpc' = "done"
                  /\ UNCHANGED rerrors
    /\ UNCHANGED <<rin, rargs, queries, rdocs, beside_retrieve>>

RetrieveFresh ==
    /\ CaptureInit
    /\ state_file.kind = "missing"
    /\ ExtractIdle
    /\ TextIdle
    /\ queries = <<>>
    /\ rdocs = <<>>
    /\ rcontext = PyAbsent
    /\ emitted = <<>>
    /\ rerrors = {}

\* one run_retrieve invocation
InitRetrieve ==
    /\ RetrieveFresh
    /\ rpc = "start"
    /\ rin \in [caller : {"run_retrieve"}, payload : RetrievePayloads,
                config : RetrieveConfigs, store : Stores]
    /\ rargs = NoArgs

NextRetrieve ==
    \/ ReadInput
    \/ LoadConfig
    \/ OpenCollection
    \/ QueryFiltered
    \/ QueryGlobal
    \/ FormatAndEmit

SpecRetrieve == InitRetrieve /\ [][NextRetrieve]_vars

\* the recency windows a direct caller passes: none, negative, one day, and
\* one reaching before 0001-01-01
RecencyWindows == {0 - 1, 0, 1, EpochOrdinal}

\* one direct call of query_sessions
InitQuery ==
    /\ RetrieveFresh
    /\ rpc = "open"
    /\ rin \in [caller : {"query_sessions"}, store : Stores]
    /\ rargs \in [n_results : (0 - 1)..(MaxStored + 1), recency_days : RecencyWindows,
                  fallback : BOOLEAN, query_text : {HELLO}]

NextQuery ==
    \/ OpenCollection
    \/ QueryFiltered
    \/ QueryGlobal

SpecQuery == InitQuery /\ [][NextQuery]_vars

\* ------------------------------------------------------------ properties
\* how often invocation p has performed effect e
Times(p, e) == Cardinality({i \in DOMAIN log[p] : log[p][i] = e})

\* C1: a finished full capture whose payload was not empty and whose
\* transcript parsed to at least one message has invoked extraction exactly
\* once and written exactly one artifact; the artifact's body is the
\* extraction output when there is one, otherwise the "Extraction timeout"
\* stub carrying the number of parsed messages.
C1_FullCaptureWritesOneArtifact ==
    \A p \in Procs :
        (/\ pc[p] \in Finished
         /\ mode[p] = "full"
         /\ input[p] # "empty"
         /\ message_count[p] >= 1)
        => /\ Times(p, "extract") = 1
           /\ Times(p, "write") = 1
           /\ \E a \in sessions :
                 /\ a.name = session_path[p]
                 /\ a.body = IF Truthy(result[p])
                                THEN ResultContent(Str(result[p]))
                                ELSE StubContent(message_count[p], "timeout")

\* C2: run_capture never raises, whatever the payload, the transcript, the
\* extraction outcome, the indexing outcome and the throttle-state file.
C2_RunCaptureNeverRaises == \A p \in Procs : pc[p] # "raised"

\* C3: a lite capture at the throttle check whose session id and fingerprint
\* both equal the stored ones ends there: no extraction is invoked, no
\* artifact is written and nothing on disk changes, whatever the elapsed time
\* and the configured minimum interval.
C3_UnchangedContentSkipped ==
    [][\A p \in Procs :
           LET state == _read_intermediate_state(state_file) IN
           (/\ pc[p] = "throttle"
            /\ pc'[p] # "throttle"
            /\ state.kind = "object"
            /\ state.session_id = Str(session_id[p])
            /\ state.transcript_hash = transcript_hash[p])
           => /\ pc'[p] \in Finished
              /\ log'[p] = <<>>
              /\ UNCHANGED shared]_vars

\* a lite capture skipped although the default minimum interval has elapsed
\* since the stored capture of the same session and content
C3_Witness ==
    \E p \in Procs :
        /\ pc[p] = "done"
        /\ mode[p] = "lite"
        /\ checked_at[p] = now
        /\ log[p] = <<>>
        /\ state_file.kind = "object"
        /\ state_file.last_ok
        /\ state_file.session_id = Str(session_id[p])
        /\ state_file.transcript_hash = transcript_hash[p]
        /\ min_interval_seconds[p] = INTERMEDIATE_MIN_INTERVAL_SECONDS
        /\ now - state_file.last_capture_at >= INTERMEDIATE_MIN_INTERVAL_SECONDS

\* C4: a lite capture that passed the throttle check did so at least the
\* configured minimum interval after the last recorded capture, and hence a
\* lite extraction never starts less than the minimum interval after the
\* previous lite extraction of the project.
C4_LiteExtractionsSpaced ==
    \A p \in Procs :
        mode[p] = "lite" =>
            /\ pc[p] = "extract" =>
                   LET state == _read_intermediate_state(state_file) IN
                   now - state.last_capture_at >= min_interval_seconds[p]
            /\ (pc[p] = "extracting" /\ prev_lite_extract[p] >= 0) =>
                   started_at[p] - prev_lite_extract[p] >= min_interval_seconds[p]

\* C5: at the throttle check, a lite capture whose session id or fingerprint
\* differs from the stored one goes on to extraction if and only if the
\* minimum-interval guard does not trigger (a missing or corrupt state file
\* being no prior state).
C5_ThrottleIsDisjunction ==
    [][\A p \in Procs :
           LET wellformed == state_file.kind = "object" /\ state_file.last_ok
               prior == IF wellformed THEN state_file
                        ELSE StateFile("object", <<>>, <<>>, TRUE, 0)
               differs == \/ prior.session_id # Str(session_id[p])
                          \/ prior.transcript_hash # transcript_hash[p]
               minimum == IF min_interval_seconds[p] > 0
                             THEN min_interval_seconds[p] ELSE 0
               interval == now - prior.last_capture_at < minimum
           IN (pc[p] = "throttle" /\ pc'[p] # "throttle" /\ differs)
              => (pc'[p] = "extract" <=> ~interval)]_vars

\* C6: a finished lite capture whose extraction was invoked and returned
\* nothing has written no artifact and indexed nothing, and has recorded the
\* throttle state with its session id, its fingerprint and the current time.
C6_LiteFailureMarksOnly ==
    \A p \in Procs :
        (/\ pc[p] \in Finished
         /\ mode[p] = "lite"
         /\ Times(p, "extract") >= 1
         /\ result[p] = PyNone)
        => /\ pc[p] = "done"
           /\ log[p] = <<"extract", "mark">>
           /\ state_file.kind = "object"
           /\ state_file.session_id = Str(session_id[p])
           /\ state_file.transcript_hash = transcript_hash[p]
           /\ state_file.last_capture_at = now

\* a lite capture whose child timed out has finished
C6_Witness ==
    \E p \in Procs :
        /\ pc[p] = "done"
        /\ mode[p] = "lite"
        /\ log[p] = <<"extract", "mark">>
        /\ result[p] = PyNone
        /\ now - started_at[p] >= timeout_seconds[p]
        /\ state_file.session_id = Str(session_id[p])
        /\ state_file.last_capture_at = now

\* C7: a finished lite capture whose extraction succeeded has written the
\* artifact, then submitted it to the index, then recorded the throttle
\* state, whether or not the indexing succeeded.
C7_LiteSuccessOrder ==
    \A p \in Procs :
        (pc[p] \in Finished /\ mode[p] = "lite" /\ Truthy(result[p]))
        => /\ log[p] = <<"extract", "write", "index", "mark">>
           /\ state_file.kind = "object"
           /\ state_file.session_id = Str(session_id[p])
           /\ state_file.transcript_hash = transcript_hash[p]

\* C8: a lite capture that loaded a configuration disabling intermediate
\* capture is over at once, having invoked no extraction and written nothing.
C8_DisabledLiteDoesNothing ==
    \A p \in Procs :
        (mode[p] = "lite" /\ ~cfg_enabled[p])
        => /\ pc[p] \in Finished
           /\ log[p] = <<>>

\* a disabled lite capture of a transcript that has messages has returned
C8_Witness ==
    \E p \in Procs :
        /\ mode[p] = "lite"
        /\ ~cfg_enabled[p]
        /\ message_count[p] >= 1
        /\ pc[p] = "done"

C10_NoMessagesSplitsByMode ==
    \A p \in Procs :
        LET nopath == ~Truthy(transcript_path[p]) IN
        (/\ pc[p] \in Finished
         /\ input[p] = "object"
         /\ nopath \/ message_count[p] = 0)
        => IF mode[p] = "full"
              THEN /\ Times(p, "extract") = 0
                   /\ Times(p, "write") = 1
                   /\ \E a \in sessions :
                         /\ a.name = session_path[p]
                         /\ a.body = StubContent(0, IF nopath
                                                       THEN "empty transcript_path"
                                                       ELSE "empty transcript")
              ELSE /\ pc[p] = "done"
                   /\ log[p] = <<>>

\* C11: a full capture never consults or changes the throttle state, and a
\* finished full capture of a transcript that has messages has invoked
\* extraction, whatever the throttle state holds.
C11_FullIgnoresThrottle ==
    [][\A p \in Procs :
           mode'[p] = "full" =>
               /\ pc'[p] # "throttle"
               /\ pc[p] # "idle" => state_file' = state_file
               /\ (pc'[p] \in Finished /\ message_count'[p] >= 1) =>
                      \E i \in DOMAIN log'[p] : log'[p][i] = "extract"]_vars

\* C12: at the throttle check, a state file that is missing, is not JSON, is
\* JSON of the wrong shape or holds a last_capture_at of the wrong type lets
\* the lite capture go on to extraction: it neither fails nor is skipped.
C12_CorruptStateIsNoState ==
    [][\A p \in Procs :
           (/\ pc[p] = "throttle"
            /\ pc'[p] # "throttle"
            /\ \/ state_file.kind \in {"missing", "notjson", "scalar"}
               \/ ~state_file.last_ok)
           => pc'[p] = "extract"]_vars

\* C13: when run_claude_extraction is over, it has returned the trimmed
\* output if the command was started, the child exited before the deadline
\* with status 0 and its output is non-empty after trimming; in every other
\* case it has returned None.
C13_ResultIffCleanExit ==
    xpc \in {"returned", "raised"} =>
        LET out == Strip(xin.stdout)
            clean == /\ ~xin.nul
                     /\ xin.launch
                     /\ in_time
                     /\ xin.returncode = 0
                     /\ out # <<>>
        IN /\ xpc = "returned"
           /\ xret = IF clean THEN PyStr(out) ELSE PyNone

\* C14: once the deadline has expired the process group is sent the kill
\* signal exactly once before the reap, and the call then returns None;
\* whenever a call that started a child is over, the child has been reaped
\* and no member of its process group is left holding the pipe.
C14_KillOnceThenReap ==
    /\ xpc = "reap" => kills = 1
    /\ xpc \in {"returned", "raised"} =>
           /\ expired => (kills = 1 /\ xpc = "returned" /\ xret = PyNone)
           /\ ~expired => kills = 0
           /\ child # "none" => (child \in {"reaped", "gone"} /\ holder # "ingroup")

\* C15: every call of run_claude_extraction is eventually over, whatever the
\* child and its descendants do.
C15_ExtractionReturns == <>(xpc \in {"returned", "raised"})

\* C16: run_claude_extraction never raises.
C16_ExtractionNeverRaises == xpc # "raised"

\* the last k characters of s
LastChars(s, k) == SubSeq(s, Len(s) - k + 1, Len(s))

\* the text assemble_transcript_text joins before it truncates
Joined(messages) == Join(<<NL, NL>>, Parts(messages))

\* C17: for every message list and every max_chars K >= 0, K = 0 included,
\* the text assemble_transcript_text returns is at most len(marker) + K
\* characters long.
C17_LengthBound ==
    (call.fn = "assemble" /\ ret.t = "str") =>
        Len(ret.v) <= Len(Marker) + call.max_chars

\* C18: assemble_transcript_text keeps the tail: a joined text longer than
\* max_chars comes back as the marker followed by exactly its last max_chars
\* characters, a joined text that fits comes back unchanged without marker,
\* and a list that is empty or whose messages are all empty after trimming
\* yields the empty string.
C18_KeepsTail ==
    (call.fn = "assemble" /\ ret.t # "absent") =>
        LET full == Joined(call.messages)
            empty == \A i \in 1..Len(call.messages) :
                         Strip(call.messages[i].content) = <<>>
        IN /\ ret.t = "str" =>
                 ret.v = IF Len(full) > call.max_chars
                            THEN Marker \o LastChars(full, call.max_chars)
                            ELSE full
           /\ empty => (ret.t = "str" /\ ret.v = <<>>)

\* a record of type user or assistant
Qualifying(line) ==
    line.json = "object" /\ line.type.t = "str" /\ line.type.v \in {USER, ASSISTANT}

\* the role the claim gives the message of a qualifying record
RoleOf(line) ==
    IF line.msg = "dict" /\ line.role.t # "absent" THEN line.role ELSE line.type

\* C19: for a transcript file with N records of type user or assistant,
\* parse_transcript returns exactly N messages in file order, each with the
\* nested message's role when there is one and the record's type otherwise.
C19_OneMessagePerRecord ==
    (call.fn = "parse" /\ ret.t # "absent") =>
        LET records == SelectSeq(call.file.lines, Qualifying) IN
        /\ ret.t = "list"
        /\ Len(ret.v) = Len(records)
        /\ \A i \in 1..Len(records) : ret.v[i].role = RoleOf(records[i])

\* a line that parses as a structured record: a JSON object whose nested
\* message, when there is one, is an object
Structured(line) == line.json = "object" /\ line.msg # "other"

\* C20: parse_transcript never raises and treats each line on its own: the
\* messages are those of the structured records, whatever other lines (invalid
\* JSON, JSON that is no object, a record whose message is no object) the
\* file holds, and a missing file yields the empty list.
C20_ParseNeverRaises ==
    (call.fn = "parse" /\ ret.t # "absent") =>
        /\ ret.t = "list"
        /\ ~call.file.exists => ret.v = <<>>
        /\ ret.v = ParseLines(SelectSeq(call.file.lines, Structured), <<>>).messages

\* C21: for every document list and every token budget B, the text
\* format_context returns, separators included, is at most 4*B characters
\* long.
C21_BudgetBound ==
    (call.fn = "format" /\ ret.t = "str") => Len(ret.v) <= 4 * call.token_budget

\* the characters of the first j documents
RECURSIVE DocChars(_, _)
DocChars(documents, j) ==
    IF j = 0 THEN 0 ELSE DocChars(documents, j - 1) + Len(documents[j])

\* C22: format_context is greedy and order-preserving: the output joins the
\* first j documents, whole and in input order, where j is the longest prefix
\* that fits the budget; when a document j+1 exists it contributes only the
\* prefix slice that exactly fills what remains of the budget (nothing when
\* nothing remains), and no later document contributes.
C22_GreedyPrefix ==
    (call.fn = "format" /\ ret.t # "absent") =>
        LET docs == call.documents
            max_chars == 4 * call.token_budget
        IN \E j \in 0..Len(docs) :
              /\ DocChars(docs, j) <= max_chars
              /\ \/ /\ j = Len(docs)
                    /\ ret = PyStr(Join(Separator, docs))
                 \/ /\ j < Len(docs)
                    /\ DocChars(docs, j + 1) > max_chars
                    /\ LET remaining == max_chars - DocChars(docs, j)
                           slice == SubSeq(docs[j + 1], 1, remaining)
                       IN /\ Len(slice) = remaining
                          /\ ret = PyStr(Join(Separator,
                                     SubSeq(docs, 1, j)
                                     \o (IF remaining > 0 THEN <<slice>> ELSE <<>>)))

\* a call in which one document was accepted whole, the next one was cut, and
\* a third one was dropped
C22_Witness ==
    /\ call.fn = "format"
    /\ ret.t = "str"
    /\ Len(call.documents) = 3
    /\ DocChars(call.documents, 1) > 0
    /\ DocChars(call.documents, 1) < 4 * call.token_budget
    /\ DocChars(call.documents, 2) > 4 * call.token_budget
    /\ call.documents[3] # <<>>

\* the collection of a direct query_sessions call can be queried: it exists,
\* holds a document and can be counted
Queryable == rin.store.exists /\ Len(rin.store.docs) > 0 /\ rin.store.fault # "count"

\* the first n texts of the stored documents, the recent ones only when
\* filtered
Ranked(filtered, n) ==
    LET hits == IF filtered THEN SelectSeq(rin.store.docs, IsRecent) ELSE rin.store.docs
    IN [i \in 1..Min(n, Len(hits)) |-> hits[i].text]

\* C23: with a recency window greater than zero, query_sessions first issues
\* the filtered query; it issues a second, unfiltered query and returns its
\* results if and only if the filtered query returned zero documents and
\* fallback is enabled; with fallback disabled an empty filtered result is
\* returned as empty after exactly one query; a non-empty filtered result is
\* always returned as is.
C23_FilteredThenFallback ==
    (rpc = "qreturned" /\ rargs.recency_days > 0 /\ Queryable) =>
        LET n == Min(Max(1, rargs.n_results), Len(rin.store.docs))
            recent == Ranked(TRUE, n)
            empty == rin.store.fault # "filtered" /\ recent = <<>>
        IN /\ Len(queries) \in {1, 2}
           /\ queries[1].filtered
           /\ Len(queries) = 2 <=> (empty /\ rargs.fallback)
           /\ Len(queries) = 2 =>
                 /\ ~queries[2].filtered
                 /\ rdocs = IF rin.store.fault = "global" THEN <<>> ELSE Ranked(FALSE, n)
           /\ (Len(queries) = 1 /\ rin.store.fault # "filtered") => rdocs = recent

\* C24: every query requests min(max(1, n_results), count) results, a number
\* between 1 and the collection size; with no recency window exactly one
\* query is issued and it is unfiltered; when the collection is missing or
\* empty no query is issued and the empty list is returned.
C24_RequestedCount ==
    /\ \A i \in DOMAIN queries :
          /\ queries[i].n_results = Min(Max(1, rargs.n_results), Len(rin.store.docs))
          /\ queries[i].n_results >= 1
          /\ queries[i].n_results <= Len(rin.store.docs)
    /\ (rpc = "qreturned" /\ rargs.recency_days <= 0 /\ Queryable) =>
          (Len(queries) = 1 /\ ~queries[1].filtered)
    /\ (rpc = "qreturned" /\ (~rin.store.exists \/ Len(rin.store.docs) = 0)) =>
          (queries = <<>> /\ rdocs = <<>>)

\* a call that asked for more results than the full collection holds and was
\* given all of it by its one query
C24_Witness ==
    /\ rpc = "qreturned"
    /\ rargs.n_results > Len(rin.store.docs)
    /\ rargs.recency_days = 0
    /\ Len(queries) = 1
    /\ queries[1].n_results = MaxStored
    /\ Len(rdocs) = MaxStored

C26_RetrieveNeverRaises ==
    /\ rpc # "raised"
    /\ (rpc = "done" /\ rerrors # {}) => emitted = <<>>
    /\ (rpc \in {"qreturned", "done"} /\ rerrors \cap {"store", "where"} # {}) =>
          rdocs = <<>>

\* a finished run in which the vector store raised during a query
C26_Witness ==
    /\ rpc = "done"
    /\ "store" \in rerrors
    /\ queries # <<>>

\* C27: two captures write the same artifact file exactly when they are for
\* the same session on the same UTC day; captures for different sessions or
\* on different UTC days never write the same file.
C27_SameFileIffSameSessionAndDay ==
    (call.fn = "write_pair" /\ ret.t = "paths") =>
        (ret.v[1] = ret.v[2]
            <=> /\ call.first.session_id = call.second.session_id
                /\ Day(call.first.at) = Day(call.second.at))

\* C29: round trip: for every session id and transcript path, parsing the
\* metadata block of the file write_session_file wrote gives back exactly
\* that session id and that transcript path.
C29_FrontmatterRoundTrip ==
    (call.fn = "roundtrip" /\ ret.t # "absent") =>
        /\ ret.t = "parsed"
        /\ ret.v.session_id = PyStr(call.session_id)
        /\ ret.v.transcript_path = PyStr(call.transcript_path)

\* C30: indexing the same artifact twice never fails and leaves exactly one
\* document stored under the artifact's session id, the collection being the
\* same after the second indexing as after the first.
C30_IndexIdempotent ==
    (call.fn = "index" /\ ret.t = "twice") =>
        /\ ~ret.v[1].raised
        /\ ~ret.v[2].raised
        /\ ret.v[2].coll = ret.v[1].coll
        /\ Cardinality({d \in ret.v[2].coll : d.id = call.session_id}) = 1

\* the body an invocation writes: the stripped output of a successful
\* extraction
WrittenBodies ==
    { ResultContent(Str(run_claude_extraction(o))) :
          o \in {x \in ConcOutcomes : Truthy(run_claude_extraction(x))} }

\* C28: whenever no write of an artifact file is in progress, every artifact
\* file holds exactly the content one invocation wrote, and no invocation has
\* failed -- whatever the interleaving of two lite captures of one session.
C28_OnlyDuplicateOrLostThrottle ==
    /\ \A p \in Procs : pc[p] # "raised"
    /\ (\A p \in Procs : pc[p] # "writing") =>
           \A f \in sessions : f.body \in WrittenBodies

\* every "write" in the effects is followed at once by one "index"
IndexedAfterWrite(l) ==
    /\ \A i \in DOMAIN l :
           l[i] = "index" => (i > 1 /\ l[i - 1] = "write")
    /\ \A i \in DOMAIN l :
           (l[i] = "write" /\ i < Len(l)) => l[i + 1] = "index"

\* C31: every artifact run_capture writes (extraction result or stub) is
\* submitted to the index exactly once, right after the file was written and
\* under the name write_session_file returned; the indexing step never makes
\* the invocation fail, leaves the artifact files as they are, and changes
\* the collection by nothing but the upsert of that file.
C31_ArtifactIndexedOnce ==
    [][\A p \in Procs :
           /\ IndexedAfterWrite(log'[p])
           /\ pc'[p] \in Finished =>
                  Cardinality({i \in DOMAIN log'[p] : log'[p][i] = "index"})
                      = Cardinality({i \in DOMAIN log'[p] : log'[p][i] = "write"})
           /\ (pc[p] = "index" /\ pc'[p] # "index") =>
                  LET f == CHOOSE a \in sessions : a.name = session_path[p] IN
                  /\ pc'[p] # "raised"
                  /\ sessions' = sessions
                  /\ f \in sessions'
                  /\ index' \in {index, Upsert(index, DocId(f), f.body)}]_vars

\* a full capture has written a stub, the indexing of it failed, and the
\* capture returned with the stub on disk and nothing in the collection
C31_Witness ==
    \E p \in Procs :
        /\ pc[p] = "done"
        /\ mode[p] = "full"
        /\ log[p] = <<"write", "index">>
        /\ content[p].kind = "stub"
        /\ index = {}
        /\ \E a \in sessions : a.name = session_path[p] /\ a.body = content[p]

\* a valid file: frontmatter delimiters present and a body that is not blank
ValidFile(f) ==
    LET parts == SplitFrontmatter(f.text) IN
    Len(parts) >= 3 /\ Strip(parts[3]) # <<>>

\* C32: for every set of markdown files in the sessions directory and every
\* earlier content of the collection, reindex returns, and afterwards the
\* collection holds exactly one document per valid file (its body) and no
\* other document, and the count returned is the number of documents in the
\* collection.
C32_ReindexRebuilds ==
    (call.fn = "reindex" /\ ret.t # "absent") =>
        LET valid == {f \in call.files : ValidFile(f)} IN
        /\ ret.t = "int"
        /\ Cardinality(ret.coll) = Cardinality(valid)
        /\ \A f \in valid :
               \E d \in ret.coll : d.body = Strip(SplitFrontmatter(f.text)[3])
        /\ ret.coll \cap call.coll = {}
        /\ ret.v = Cardinality(ret.coll)

\* C33: a finished full capture whose artifact brought the number of session
\* artifacts (none of them consolidated yet) up to the consolidation
\* threshold has left exactly one knowledge document, recording that number
\* of source sessions; while the number is below the threshold there is no
\* knowledge document.
C33_ConsolidatesAtThreshold ==
    \A p \in Procs :
        (/\ pc[p] = "done"
         /\ mode[p] = "full"
         /\ Times(p, "write") = 1)
        => IF Cardinality(sessions) = CONSOLIDATION_THRESHOLD
              THEN /\ Cardinality(knowledge) = 1
                   /\ \A k \in knowledge :
                          k.source_session_count = CONSOLIDATION_THRESHOLD
              ELSE Cardinality(sessions) < CONSOLIDATION_THRESHOLD => knowledge = {}

\* C34: once a lite capture of a session has recorded a failed extraction,
\* every later lite capture of that session that reaches the throttle check
\* with the same fingerprint ends there: no extraction, no artifact, nothing
\* on disk changed -- whatever happened in between and however much time has
\* passed.
C34_FailedContentConsumed ==
    [][\A p \in Procs :
           (/\ pc[p] = "throttle"
            /\ pc'[p] # "throttle"
            /\ mode[p] = "lite"
            /\ [session_id |-> Str(session_id[p]),
                transcript_hash |-> transcript_hash[p]] \in consumed)
           => /\ pc'[p] = "done"
              /\ log'[p] = <<>>
              /\ UNCHANGED shared]_vars

\* C35: within one invocation of run_capture, in either mode and on every
\* path (the failing ones included), extraction is invoked at most once, at
\* most one artifact file is written, the index is called at most once and
\* the throttle state is written at most once.
C35_EachEffectAtMostOnce ==
    \A p \in Procs :
        \A e \in {"extract", "write", "index", "mark"} : Times(p, e) <= 1

\* a lite capture has performed each of the four effects
C35_Witness ==
    \E p \in Procs :
        /\ pc[p] = "done"
        /\ mode[p] = "lite"
        /\ \A e \in {"extract", "write", "index", "mark"} : Times(p, e) = 1

\* C36: a step of a lite invocation that has not invoked extraction leaves
\* the throttle-state file as it is, and so a lite invocation that returned
\* without invoking extraction (empty payload, no transcript path, empty
\* transcript, capture disabled, skipped by the unchanged-content guard or by
\* the minimum-interval guard) has written nothing; in particular a skipped
\* invocation does not move the recorded last-capture time.
C36_NoExtractionNoStateWrite ==
    [][\A p \in Procs :
           (/\ pc'[p] # pc[p]
            /\ mode'[p] = "lite"
            /\ Times(p, "extract") = 0
            /\ \A i \in DOMAIN log'[p] : log'[p][i] # "extract")
           => /\ state_file' = state_file
              /\ pc'[p] = "done" => log'[p] = <<>>]_vars

\* a lite capture of another session arrived before the minimum interval had
\* elapsed and was skipped; the recorded last-capture time is still the
\* earlier one
C36_Witness ==
    \E p \in Procs :
        /\ pc[p] = "done"
        /\ mode[p] = "lite"
        /\ log[p] = <<>>
        /\ checked_at[p] = now
        /\ state_file.kind = "object"
        /\ state_file.session_id # Str(session_id[p])
        /\ state_file.last_capture_at < now
        /\ now - state_file.last_capture_at < min_interval_seconds[p]

\* C37: in a sequence of non-overlapping lite captures with capture enabled,
\* an invocation that reaches the throttle check at least the minimum
\* interval after the last recorded capture (none recorded: time 0), with a
\* session id or fingerprint that differs from the stored one, goes on to
\* extraction and invokes it -- whatever invocations, skipped or not, came
\* before.
C37_NotStarved ==
    [][\A p \in Procs :
           LET prior == _read_intermediate_state(state_file)
               minimum == IF min_interval_seconds[p] > 0
                             THEN min_interval_seconds[p] ELSE 0
           IN /\ (/\ pc[p] = "throttle"
                  /\ pc'[p] # "throttle"
                  /\ mode[p] = "lite"
                  /\ now - prior.last_capture_at >= minimum
                  /\ \/ prior.session_id # Str(session_id[p])
                     \/ prior.transcript_hash # transcript_hash[p])
                 => pc'[p] = "extract"
              /\ (pc[p] = "extract" /\ pc'[p] # "extract")
                 => /\ pc'[p] = "extracting"
                    /\ log'[p] = <<"extract">>]_vars

\* the third capture of the run: the first, of session S2, succeeded and was
\* recorded at the start; the second was skipped (it left no artifact and
\* no record); this one, of session S1, arrives exactly the default minimum
\* interval later and has invoked extraction
C37_Witness ==
    \E p \in Procs :
        /\ runs = MaxLiteRuns
        /\ pc[p] = "extracting"
        /\ mode[p] = "lite"
        /\ Str(session_id[p]) = S1
        /\ min_interval_seconds[p] = INTERMEDIATE_MIN_INTERVAL_SECONDS
        /\ state_file.kind = "object"
        /\ state_file.session_id = S2
        /\ state_file.last_capture_at = StartTime
        /\ started_at[p] - StartTime = INTERMEDIATE_MIN_INTERVAL_SECONDS
        /\ Cardinality(sessions) = 1
        /\ \A f \in sessions : f.session_id = S2
        /\ consumed = {}

\* C38: the throttle-state file changes only in a step of an invocation whose
\* extraction attempt has returned, and the record then written holds that
\* invocation's session id and fingerprint and the current time; every other
\* step -- the one that interrupts an invocation while its extraction is
\* running included -- leaves the file as it was.
C38_StateWrittenAfterExtraction ==
    [][state_file' # state_file =>
           \E p \in Procs :
               /\ pc'[p] # pc[p]
               /\ log[p] # <<>> /\ log[p][1] = "extract"
               /\ result[p] # PyAbsent
               /\ state_file'.kind = "object"
               /\ state_file'.session_id = Str(session_id[p])
               /\ state_file'.transcript_hash = transcript_hash[p]
               /\ state_file'.last_capture_at = now]_vars

\* a lite capture was interrupted during extraction and left no record; the
\* next capture of the project is attempted: it has invoked extraction
C38_Witness ==
    \E p \in Procs :
        /\ runs = 2
        /\ pc[p] = "extracting"
        /\ mode[p] = "lite"
        /\ prev_lite_extract[p] >= 0
        /\ state_file.kind = "missing"
        /\ sessions = {}
        /\ consumed = {}

\* C39: after a sequence of captures the index holds at most one document
\* per session id: it never holds more documents than distinct session ids
\* were captured, and when the later capture is of the same session as the
\* earlier one, its document has replaced the earlier one.
C39_OneDocumentPerSession ==
    (call.fn = "captures" /\ ret.t = "coll") =>
        /\ Cardinality(ret.v)
              <= Cardinality({call.first.session_id, call.second.session_id})
        /\ call.first.session_id = call.second.session_id
              => \A d \in ret.v : d.body = SecondBody

====
